---------------------------- MODULE Spec2Model ----------------------------
(***************************************************************************)
(* Model of heirarchy_generator/main.py (class RustParser): the symbol     *)
(* table built by scan_project, the reference resolver, the usage sweep    *)
(* and the graph assembler.                                                *)
(*                                                                         *)
(* Text is a sequence of one-character strings, so Python's str.endswith,  *)
(* str.split and the `in` substring test are modelled character by         *)
(* character.  A source file is given as the list of constructs the        *)
(* scanner's regular expressions match in it (one item per match, in text  *)
(* order); the type expressions, names and paths the matches capture are   *)
(* character sequences.                                                    *)
(***************************************************************************)
EXTENDS Naturals, Integers, Sequences, FiniteSets, TLC

(***************************************************************************)
(* Python str operations                                                   *)
(***************************************************************************)

\* s[i:i+len(p)] == p (1-based i)
StartsWithAt(s, p, i) ==
    /\ i >= 1
    /\ i + Len(p) - 1 <= Len(s)
    /\ \A k \in 1..Len(p) : s[i + k - 1] = p[k]

\* s.endswith(t)
EndsWith(s, t) ==
    /\ Len(t) <= Len(s)
    /\ \A k \in 1..Len(t) : s[Len(s) - Len(t) + k] = t[k]

\* p in s
Contains(s, p) == \E i \in 1..(Len(s) + 1) : StartsWithAt(s, p, i)

RECURSIVE Find(_, _, _)
\* s.find(p, from) as a 1-based index, 0 when absent
Find(s, p, from) ==
    IF from > Len(s) + 1 THEN 0
    ELSE IF StartsWithAt(s, p, from) THEN from
    ELSE Find(s, p, from + 1)

\* s[i:] (1-based i)
Tail_(s, i) == IF i > Len(s) THEN <<>> ELSE SubSeq(s, i, Len(s))

\* s[:i] exclusive (1-based i)
Head_(s, i) == IF i <= 1 THEN <<>> ELSE SubSeq(s, 1, i - 1)

RECURSIVE Split(_, _)
\* s.split(sep), sep non-empty
Split(s, sep) ==
    IF Find(s, sep, 1) = 0 THEN <<s>>
    ELSE <<Head_(s, Find(s, sep, 1))>>
         \o Split(Tail_(s, Find(s, sep, 1) + Len(sep)), sep)

RECURSIVE Join(_, _)
\* sep.join(parts)
Join(parts, sep) ==
    IF Len(parts) = 0 THEN <<>>
    ELSE IF Len(parts) = 1 THEN parts[1]
    ELSE parts[1] \o sep \o Join(Tail(parts), sep)

IsSpace(c) == c \in {" ", "\n", "\t"}

RECURSIVE LStrip(_)
LStrip(s) == IF Len(s) > 0 /\ IsSpace(s[1]) THEN LStrip(Tail(s)) ELSE s

RECURSIVE RStrip(_)
RStrip(s) ==
    IF Len(s) > 0 /\ IsSpace(s[Len(s)]) THEN RStrip(Head_(s, Len(s))) ELSE s

\* s.strip()
Strip(s) == LStrip(RStrip(s))

RECURSIVE RStripColons(_)
\* s.rstrip('::'): drops every trailing ':' character
RStripColons(s) ==
    IF Len(s) > 0 /\ s[Len(s)] = ":" THEN RStripColons(Head_(s, Len(s))) ELSE s

\* regex \w: the characters the model's texts use that the class rejects
IsWordChar(c) ==
    c \notin {" ", "\n", "\t", ":", "<", ">", ",", "&", "(", ")", "[", "]",
              "{", "}", "-", ";", "*", "=", "+", "'", "."}

sep_path == <<":", ":">>

(***************************************************************************)
(* Type expressions                                                        *)
(***************************************************************************)

\* RustParser.std_types
std_types ==
    { <<"S","t","r","i","n","g">>,
      <<"V","e","c">>,
      <<"O","p","t","i","o","n">>,
      <<"R","e","s","u","l","t">>,
      <<"B","o","x">>,
      <<"R","c">>,
      <<"A","r","c">>,
      <<"H","a","s","h","M","a","p">>,
      <<"H","a","s","h","S","e","t">>,
      <<"B","T","r","e","e","M","a","p">>,
      <<"B","T","r","e","e","S","e","t">>,
      <<"L","i","n","k","e","d","L","i","s","t">>,
      <<"i","8">>,
      <<"i","1","6">>,
      <<"i","3","2">>,
      <<"i","6","4">>,
      <<"i","1","2","8">>,
      <<"i","s","i","z","e">>,
      <<"u","8">>,
      <<"u","1","6">>,
      <<"u","3","2">>,
      <<"u","6","4">>,
      <<"u","1","2","8">>,
      <<"u","s","i","z","e">>,
      <<"f","3","2">>,
      <<"f","6","4">>,
      <<"b","o","o","l">>,
      <<"c","h","a","r">>,
      <<"s","t","r">>,
      <<"(",")">>,
      <<"S","e","l","f">> }

RECURSIVE RemoveAmpMut(_)
\* re.sub(r'&(mut\s+)?', '', s)
RemoveAmpMut(s) ==
    IF Len(s) = 0 THEN <<>>
    ELSE IF s[1] = "&"
         THEN LET r == Tail(s)
              IN  IF StartsWithAt(r, <<"m", "u", "t">>, 1) /\ Len(r) >= 4 /\ IsSpace(r[4])
                  THEN RemoveAmpMut(LStrip(Tail_(r, 4)))
                  ELSE RemoveAmpMut(r)
         ELSE <<s[1]>> \o RemoveAmpMut(Tail(s))

\* index of the last c in s, 0 when absent
LastIndexOf(s, c) ==
    IF \E i \in 1..Len(s) : s[i] = c
    THEN CHOOSE i \in 1..Len(s) : s[i] = c /\ \A j \in (i + 1)..Len(s) : s[j] # c
    ELSE 0

\* re.sub(r'<.*>', '', s): greedy, from the first '<' to the last '>'
RemoveGenerics(s) ==
    IF Find(s, <<"<">>, 1) > 0 /\ LastIndexOf(s, ">") > Find(s, <<"<">>, 1)
    THEN Head_(s, Find(s, <<"<">>, 1)) \o Tail_(s, LastIndexOf(s, ">") + 1)
    ELSE s

\* re.sub(r'^(crate|self|super)::', '', s)
RemoveRootPrefix(s) ==
    IF StartsWithAt(s, <<"c", "r", "a", "t", "e", ":", ":">>, 1) THEN Tail_(s, 8)
    ELSE IF StartsWithAt(s, <<"s", "e", "l", "f", ":", ":">>, 1) THEN Tail_(s, 7)
    ELSE IF StartsWithAt(s, <<"s", "u", "p", "e", "r", ":", ":">>, 1) THEN Tail_(s, 8)
    ELSE s

\* RustParser._clean_type_name
CleanTypeName(type_name) ==
    RemoveRootPrefix(Strip(RemoveGenerics(RemoveAmpMut(Strip(type_name)))))

\* RustParser.is_std_type
IsStdType(type_name) == CleanTypeName(type_name) \in std_types

\* `if current.strip(): types.append(current.strip())`
AppendStripped(types, stripped) ==
    IF stripped # <<>> THEN Append(types, stripped) ELSE types

RECURSIVE InnerScan(_, _, _, _, _)
\* the character loop of _extract_inner_types from index i on
InnerScan(s, i, depth, current, types) ==
    IF i > Len(s) THEN types
    ELSE LET c == s[i]
         IN  IF c = "<"
             THEN InnerScan(s, i + 1, depth + 1,
                            IF depth > 0 THEN Append(current, c) ELSE current, types)
             ELSE IF c = ">"
             THEN IF depth - 1 > 0
                  THEN InnerScan(s, i + 1, depth - 1, Append(current, c), types)
                  ELSE IF depth - 1 = 0
                  THEN AppendStripped(types, Strip(current))
                  ELSE InnerScan(s, i + 1, depth - 1, current, types)
             ELSE IF depth > 0
             THEN IF c = "," /\ depth = 1
                  THEN InnerScan(s, i + 1, depth, <<>>,
                                 AppendStripped(types, Strip(current)))
                  ELSE InnerScan(s, i + 1, depth, Append(current, c), types)
             ELSE InnerScan(s, i + 1, depth, current, types)

RECURSIVE ExtractInnerTypes(_)
RECURSIVE ExtractNested(_)
\* the concatenation of _extract_inner_types(t) for t in types
ExtractNested(types) ==
    IF Len(types) = 0 THEN <<>>
    ELSE ExtractInnerTypes(types[1]) \o ExtractNested(Tail(types))

\* lines 145-148: the types found, then the types nested in each of them
WithNested(types) == types \o ExtractNested(types)

\* lines 110-143 given start_idx = type_name.find('<')
InnerTypesFrom(type_name, start_idx) ==
    IF start_idx = 0 THEN <<>>
    ELSE WithNested(InnerScan(type_name, start_idx, 0, <<>>, <<>>))

\* RustParser._extract_inner_types
ExtractInnerTypes(type_name) ==
    InnerTypesFrom(type_name, Find(type_name, <<"<">>, 1))

\* end of the run of characters of the class \w (word_only) or [\w:] from i
\* on (i - 1 if none)
RECURSIVE RunEnd(_, _, _)
RunEnd(s, i, word_only) ==
    IF i <= Len(s) /\ (IsWordChar(s[i]) \/ (~word_only /\ s[i] = ":"))
    THEN RunEnd(s, i + 1, word_only)
    ELSE i - 1

\* the greedy match continues after the last '::' (one of ks) followed by \w
PathTailEnd(s, ks) ==
    IF ks = {} THEN 0
    ELSE RunEnd(s, (CHOOSE x \in ks : \A y \in ks : y <= x) + 2, TRUE)

\* end index of the greedy match of [\w:]+::\w+ starting at i, 0 if none
PathMatchEnd(s, i) ==
    PathTailEnd(s, {k \in (i + 1)..(RunEnd(s, i, FALSE) - 2) :
                      s[k] = ":" /\ s[k + 1] = ":" /\ IsWordChar(s[k + 2])})

RECURSIVE PathMatchesFrom(_, _)
\* the scan at p given the end e of a match starting there (0: none)
PathMatchStep(s, p, e) ==
    IF e > 0 THEN <<SubSeq(s, p, e)>> \o PathMatchesFrom(s, e + 1)
    ELSE PathMatchesFrom(s, p + 1)

\* re.finditer(r'([\w:]+::\w+)', s) from index p on: the matched texts
PathMatchesFrom(s, p) ==
    IF p > Len(s) THEN <<>> ELSE PathMatchStep(s, p, PathMatchEnd(s, p))

\* RustParser._extract_fn_references_from_signature
ExtractFnReferences(signature) == PathMatchesFrom(signature, 1)

\* 'fn' in type_name.lower() or 'Fn' in type_name   (_parse_fields)
IsFnPointerType(type_name) ==
    \E i \in 1..(Len(type_name) - 1) :
        type_name[i] \in {"f", "F"} /\ type_name[i + 1] \in {"n", "N"}

(***************************************************************************)
(* The symbol table: RustParser.nodes, a dict in insertion order, is a     *)
(* sequence of Node records with pairwise distinct ids.  uid numbers the   *)
(* Node objects in order of construction (Python object identity); it is   *)
(* no field of the program's Node.                                         *)
(***************************************************************************)

\* dataclass Field
MkField(name, type_name, is_public, is_fn_pointer, fn_pointer_sig) ==
    [name |-> name, type_name |-> type_name, is_public |-> is_public,
     is_fn_pointer |-> is_fn_pointer, fn_pointer_sig |-> fn_pointer_sig]

\* dataclass Method (has_default is TraitMethod's; FALSE for a Method)
MkMethod(name, params, return_type, is_public, has_default) ==
    [name |-> name, params |-> params, return_type |-> return_type,
     is_public |-> is_public, has_default |-> has_default]

\* dataclass Node with its defaults
NewNode(uid, id, name, node_type, file_path, is_public) ==
    [uid |-> uid, id |-> id, name |-> name, node_type |-> node_type,
     file_path |-> file_path, is_public |-> is_public, is_used |-> FALSE,
     fields |-> <<>>, methods |-> <<>>, params |-> <<>>, return_type |-> <<>>,
     variants |-> <<>>, linked_types |-> {}, full_path |-> id,
     trait_methods |-> <<>>, impl_trait |-> <<>>, impl_for |-> <<>>]

\* node_id in self.nodes
HasKey(nodes, id) == \E i \in 1..Len(nodes) : nodes[i].id = id

\* position of key id
KeyIndex(nodes, id) == CHOOSE i \in 1..Len(nodes) : nodes[i].id = id

\* self.nodes[node.id] = node: a present key keeps its position, its value
\* is replaced; a new key goes last
PutNode(nodes, node) ==
    IF HasKey(nodes, node.id)
    THEN [nodes EXCEPT ![KeyIndex(nodes, node.id)] = node]
    ELSE Append(nodes, node)

\* f"{a}::{b}"
PathJoin(a, b) == a \o sep_path \o b

(***************************************************************************)
(* Reference Resolver                                                      *)
(***************************************************************************)

\* RustParser._resolve_type_path
RECURSIVE Suffixes(_)
Suffixes(parts) ==
    IF Len(parts) = 0 THEN <<>>
    ELSE <<Join(parts, sep_path)>> \o Suffixes(Tail(parts))

\* variant that trusts the import map: a mapped name yields its entry only
ResolveTypePathMapped(use_imports, type_name) ==
    IF type_name \in DOMAIN use_imports THEN <<use_imports[type_name]>>
    ELSE IF Contains(type_name, sep_path)
    THEN <<type_name>> \o Suffixes(Split(type_name, sep_path))
    ELSE <<type_name>>

ResolveTypePath(use_imports, type_name) ==
    IF Contains(type_name, sep_path)
    THEN <<type_name>> \o Suffixes(Split(type_name, sep_path))
    ELSE (IF type_name \in DOMAIN use_imports
          THEN <<use_imports[type_name]>> ELSE <<>>) \o <<type_name>>

\* lines 299-311 given path_parts and node_parts
PartsMatch(name, path_parts, node_parts, qualified) ==
    /\ name = path_parts[Len(path_parts)]
    /\ IF qualified
       THEN /\ Len(path_parts) > 1
            /\ Len(node_parts) >= Len(path_parts)
            /\ SubSeq(node_parts, Len(node_parts) - Len(path_parts) + 1,
                      Len(node_parts)) = path_parts
       ELSE TRUE

\* the inner test of the second loop of _find_node_by_type
NameMatches(node, candidate) ==
    PartsMatch(node.name, Split(candidate, sep_path),
               Split(node.full_path, sep_path), Contains(candidate, sep_path))

\* the first of ends if any, else the first of names if any, else 0
FirstOf(ends, names) ==
    IF ends # {} THEN CHOOSE x \in ends : \A y \in ends : x <= y
    ELSE IF names # {} THEN CHOOSE x \in names : \A y \in names : x <= y
    ELSE 0

\* variant that tries the name test before the suffix test
CandidateIndexNameFirst(nodes, candidate) ==
    FirstOf({i \in 1..Len(nodes) : NameMatches(nodes[i], candidate)},
            {i \in 1..Len(nodes) : EndsWith(nodes[i].full_path, candidate)})

\* first index of nodes satisfying the suffix test, else the name test, 0 if none
CandidateIndex(nodes, candidate) ==
    FirstOf({i \in 1..Len(nodes) : EndsWith(nodes[i].full_path, candidate)},
            {i \in 1..Len(nodes) : NameMatches(nodes[i], candidate)})

RECURSIVE FirstCandidateIndex(_, _)
\* `if node: return node`, else on to the next candidate
FirstFound(i, nodes, rest) ==
    IF i # 0 THEN i ELSE FirstCandidateIndex(nodes, rest)

FirstCandidateIndex(nodes, candidates) ==
    IF Len(candidates) = 0 THEN 0
    ELSE FirstFound(CandidateIndex(nodes, candidates[1]), nodes, Tail(candidates))

\* RustParser._find_node_by_type: the index in nodes of the node returned,
\* 0 for None
FindNodeByType(nodes, use_imports, type_name) ==
    FirstCandidateIndex(nodes, ResolveTypePath(use_imports, type_name))

(***************************************************************************)
(* Outgoing references (linked_types) of a type expression                 *)
(***************************************************************************)

SeqToSet(s) == {s[i] : i \in 1..Len(s)}

\* the recurring block
\*   clean = _clean_type_name(t); if not is_std_type(clean): add(clean)
\*   for inner in _extract_inner_types(t): ... add(clean_inner)
\* `if not self.is_std_type(clean): linked_types.add(clean)`
KeepClean(clean) == IF IsStdType(clean) THEN {} ELSE {clean}

\* the cleaned names of the texts that are no standard types
KeepAll(texts) ==
    UNION {KeepClean(CleanTypeName(texts[i])) : i \in 1..Len(texts)}

TypeRefs(type_name) == KeepAll(<<type_name>> \o ExtractInnerTypes(type_name))

\* the recurring block over a list of type expressions
TypesRefs(type_names) ==
    UNION {TypeRefs(type_names[i]) : i \in 1..Len(type_names)}

TypeNames(members) == [i \in 1..Len(members) |-> members[i].type_name]

\* the recurring block over a signature: its params, then its return type
\* `if return_type:`
SignatureRefs(params, return_type) ==
    TypesRefs(TypeNames(params)
              \o (IF return_type # <<>> THEN <<return_type>> ELSE <<>>))

MethodsRefs(methods) ==
    UNION {SignatureRefs(methods[i].params, methods[i].return_type) :
             i \in 1..Len(methods)}

\* _parse_structs, lines 365-381: references of one struct field
StructFieldRefs(field) ==
    IF field.is_fn_pointer
    THEN {PathJoin(field.name, c) :
             c \in KeepAll(ExtractFnReferences(field.fn_pointer_sig))}
    ELSE TypeRefs(field.type_name)

(***************************************************************************)
(* Import Resolver                                                         *)
(***************************************************************************)

\* self.use_imports[simple_name] = full_path
SetImport(use_imports, simple_name, full_path) ==
    [k \in (DOMAIN use_imports) \cup {simple_name} |->
        IF k = simple_name THEN full_path ELSE use_imports[k]]

\* `a, b = x.split(' as ')` raises ValueError unless there are two parts
AsUnpackRaises(text) ==
    Contains(text, <<" ", "a", "s", " ">>) /\ Len(Split(text, <<" ", "a", "s", " ">>)) # 2

\* the result of _parse_use_statements: the map, and whether it raised
Imported(use_imports, raised) == [imports |-> use_imports, raised |-> raised]

\* `name, alias = item.split(' as ')` and the assignment that follows, the
\* path prefixed when the import is braced
SetAlias(use_imports, prefix, halves) ==
    SetImport(use_imports, Strip(halves[2]), prefix \o Strip(halves[1]))

\* parts[-1]
Last(parts) == parts[Len(parts)]

RECURSIVE BracedImports(_, _, _)
\* lines 233-244: one stripped item of a braced import, then the rest
BracedImport(use_imports, base_path, item, rest) ==
    IF item = <<>> THEN BracedImports(use_imports, base_path, rest)
    ELSE IF AsUnpackRaises(item) THEN Imported(use_imports, TRUE)
    ELSE IF Contains(item, <<" ", "a", "s", " ">>)
    THEN BracedImports(SetAlias(use_imports, base_path \o sep_path,
                                Split(item, <<" ", "a", "s", " ">>)),
                       base_path, rest)
    ELSE BracedImports(SetImport(use_imports, item, PathJoin(base_path, item)),
                       base_path, rest)

\* lines 230-244: the items of a braced import
BracedImports(use_imports, base_path, items) ==
    IF Len(items) = 0 THEN Imported(use_imports, FALSE)
    ELSE BracedImport(use_imports, base_path, Strip(items[1]), Tail(items))

\* variant that records a wildcard import like a simple one
ParseUseStatementNoSkip(use_imports, use_path) ==
    Imported(SetImport(use_imports, Last(Split(use_path, sep_path)), use_path),
             FALSE)

\* lines 214-258: one match of use_pattern, use_path its stripped group 1
ParseUseStatement(use_imports, use_path) ==
    IF Contains(use_path, <<"*">>) THEN Imported(use_imports, FALSE)
    ELSE IF Contains(use_path, <<"{">>)
    THEN BracedImports(use_imports,
                       RStripColons(Strip(Split(use_path, <<"{">>)[1])),
                       Split(Split(Split(use_path, <<"{">>)[2], <<"}">>)[1],
                             <<",">>))
    ELSE IF AsUnpackRaises(use_path) THEN Imported(use_imports, TRUE)
    ELSE IF Contains(use_path, <<" ", "a", "s", " ">>)
    THEN Imported(SetAlias(use_imports, <<>>, Split(use_path, <<" ", "a", "s", " ">>)), FALSE)
    ELSE Imported(SetImport(use_imports, Last(Split(use_path, sep_path)),
                            use_path), FALSE)

RECURSIVE ParseUseStatements(_, _)
\* an exception ends the loop over the matches
NextUseStatement(r, rest) ==
    IF r.raised THEN r ELSE ParseUseStatements(r.imports, rest)

\* RustParser._parse_use_statements over the use_paths matched in a file
ParseUseStatements(use_imports, use_paths) ==
    IF Len(use_paths) = 0 THEN Imported(use_imports, FALSE)
    ELSE NextUseStatement(ParseUseStatement(use_imports, use_paths[1]),
                          Tail(use_paths))

(***************************************************************************)
(* Source files.  A file is [path, module, items]; items lists, in text    *)
(* order, the constructs the scanner's patterns match:                     *)
(*   kind      the construct                                               *)
(*   name      the captured name                                           *)
(*   pubwin    'pub' occurs in the window of text before the match start   *)
(*             (10 characters; 20 for a method inside an impl body)        *)
(*   pubhead   the match starts with the qualifier, the optional group     *)
(*             (?:pub\s+)? of the pattern having matched                   *)
(*   type_name use: the use path; impl, trait_impl: the implementing type; *)
(*             type: the alias target; const: its type; fn: return type;   *)
(*             trait: the bounds text                                      *)
(*   trait_name trait_impl: the interface                                  *)
(*   fields    struct: members as _parse_fields returns them;              *)
(*             fn: parameters as _parse_params returns them                *)
(*   methods   impl, trait_impl, trait: the signatures matched in the body *)
(*   variants  enum: the variants matched in the body                      *)
(*   paths     impl: the path expressions a::b in the method bodies        *)
(*   orig_found fn: _find_in_original locates the match in the file        *)
(***************************************************************************)

BaseItem ==
    [kind |-> "none", name |-> <<>>, pubwin |-> FALSE, type_name |-> <<>>,
     trait_name |-> <<>>, fields |-> <<>>, methods |-> <<>>, variants |-> <<>>,
     paths |-> <<>>, orig_found |-> TRUE, pubhead |-> FALSE]

\* a match of use_pattern, type_pattern or const_pattern: a name and one
\* type expression (the use path; the alias target; the type of the const)
TypedItem(kind, name, pubwin, type_name) ==
    [BaseItem EXCEPT !.kind = kind, !.name = name, !.pubwin = pubwin,
                     !.type_name = type_name]

StructItem(name, pubwin, fields) ==
    [BaseItem EXCEPT !.kind = "struct", !.name = name, !.pubwin = pubwin,
                     !.fields = fields]

\* a match of one of the two impl_pattern: `impl Type` (kind "impl") or
\* `impl Trait for Type` (kind "trait_impl")
ImplItem(kind, trait_name, type_name, methods, paths) ==
    [BaseItem EXCEPT !.kind = kind, !.trait_name = trait_name,
                     !.type_name = type_name, !.methods = methods,
                     !.paths = paths]

FnItem(name, pubwin, params, return_type) ==
    [BaseItem EXCEPT !.kind = "fn", !.name = name, !.pubwin = pubwin,
                     !.fields = params, !.type_name = return_type]

\* a member `name: type` as the item lists carry it
Mem(name, type_name, pubwin) ==
    [name |-> name, type_name |-> type_name, pubwin |-> pubwin]

\* a method signature as the item lists carry it
Sig(name, pubwin, params, return_type, has_default) ==
    [name |-> name, pubwin |-> pubwin, params |-> params,
     return_type |-> return_type, has_default |-> has_default]

RECURSIVE SelectKind(_, _)
\* the matches of one pattern, in text order
SelectKind(items, kind) ==
    IF Len(items) = 0 THEN <<>>
    ELSE (IF items[1].kind = kind THEN <<items[1]>> ELSE <<>>)
         \o SelectKind(Tail(items), kind)

(***************************************************************************)
(* Declaration Scanner.  The scanner state threaded through the passes is  *)
(* st = [nodes, created]: created[uid] is the id under which the Node      *)
(* object numbered uid was stored (a history of the constructions).        *)
(***************************************************************************)

\* Node(...) followed by self.nodes[node_id] = node
Register(st, node) ==
    LET n == [node EXCEPT !.uid = Len(st.created) + 1]
    IN  [nodes |-> PutNode(st.nodes, n), created |-> Append(st.created, n.id)]

\* _parse_fields, lines 396-414: the Field built from one match
ToFields(mems) ==
    [i \in 1..Len(mems) |->
        MkField(mems[i].name, mems[i].type_name, mems[i].pubwin,
                IsFnPointerType(mems[i].type_name),
                IF IsFnPointerType(mems[i].type_name)
                THEN mems[i].type_name ELSE <<>>)]

RECURSIVE ClassEnd(_, _, _, _)
\* end of the run of characters of s, from i on, that are (inside) or are
\* not (~inside) in class; i - 1 if none
ClassEnd(s, i, class, inside) ==
    IF i <= Len(s) /\ ((s[i] \in class) = inside)
    THEN ClassEnd(s, i + 1, class, inside)
    ELSE i - 1

\* field_pattern (line 394) from the name on, (\w+)\s*:\s*([^,}]+), for a
\* match that starts at p and has its name at q: w the end of the name, c
\* where the colon has to be, e the end of group 2.  stop is the end of the
\* match, 0 if there is none
FieldCore(s, p, q) ==
    LET w == RunEnd(s, q, TRUE)
        c == ClassEnd(s, w + 1, {" ", "\n", "\t"}, TRUE) + 1
        e == ClassEnd(s, c + 1, {",", "}"}, FALSE)
    IN  IF w >= q /\ c <= Len(s) /\ s[c] = ":" /\ e > c
        THEN [stop |-> e,
              mem  |-> Mem(SubSeq(s, q, w), Strip(SubSeq(s, c + 1, e)),
                           Contains(SubSeq(s, IF p > 10 THEN p - 10 ELSE 1,
                                           p - 1),
                                    <<"p", "u", "b">>))]
        ELSE [stop |-> 0, mem |-> Mem(<<>>, <<>>, FALSE)]

\* field_pattern tried at p: with the optional (?:pub\s+) first, then
\* without it
FieldMatchAt(s, p) ==
    LET q == ClassEnd(s, p + 3, {" ", "\n", "\t"}, TRUE) + 1
    IN  IF /\ StartsWithAt(s, <<"p", "u", "b">>, p)
           /\ p + 3 <= Len(s) /\ IsSpace(s[p + 3])
           /\ FieldCore(s, p, q).stop > 0
        THEN FieldCore(s, p, q)
        ELSE FieldCore(s, p, p)

RECURSIVE FieldMatchesFrom(_, _)
\* re.finditer(field_pattern, body) from index p on: the matches as the
\* item lists carry them
FieldMatchesFrom(s, p) ==
    IF p > Len(s) THEN <<>>
    ELSE LET m == FieldMatchAt(s, p)
         IN  IF m.stop > 0 THEN <<m.mem>> \o FieldMatchesFrom(s, m.stop + 1)
             ELSE FieldMatchesFrom(s, p + 1)

\* RustParser._parse_fields
ParseFields(body) == ToFields(FieldMatchesFrom(body, 1))

\* _parse_params, lines 568-572: the Field built from one `name: type` part
ToParams(mems) ==
    [i \in 1..Len(mems) |->
        MkField(mems[i].name, mems[i].type_name, TRUE, FALSE, <<>>)]

RECURSIVE ParamParts(_, _, _, _, _)
\* _parse_params, lines 536-551: the character loop from index i on, and
\* the append after it
ParamParts(s, i, depth, current, param_parts) ==
    IF i > Len(s) THEN AppendStripped(param_parts, Strip(current))
    ELSE IF s[i] \in {"<", "(", "["}
    THEN ParamParts(s, i + 1, depth + 1, Append(current, s[i]), param_parts)
    ELSE IF s[i] \in {">", ")", "]"}
    THEN ParamParts(s, i + 1, depth - 1, Append(current, s[i]), param_parts)
    ELSE IF s[i] = "," /\ depth = 0
    THEN ParamParts(s, i + 1, depth, <<>>,
                    AppendStripped(param_parts, Strip(current)))
    ELSE ParamParts(s, i + 1, depth, Append(current, s[i]), param_parts)

RECURSIVE ParamsOf(_)
\* _parse_params, lines 553-572: the Field of each part that is no receiver
\* and holds a ':'
ParamsOf(param_parts) ==
    IF Len(param_parts) = 0 THEN <<>>
    ELSE (IF \/ param_parts[1] \in { <<"s", "e", "l", "f">>,
                                     <<"&", "s", "e", "l", "f">>,
                                     <<"&", "m", "u", "t", " ", "s", "e", "l", "f">>,
                                     <<"m", "u", "t", " ", "s", "e", "l", "f">> }
             \/ Find(param_parts[1], <<":">>, 1) = 0
          THEN <<>>
          ELSE <<MkField(Strip(Head_(param_parts[1],
                                     Find(param_parts[1], <<":">>, 1))),
                         Strip(Tail_(param_parts[1],
                                     Find(param_parts[1], <<":">>, 1) + 1)),
                         TRUE, FALSE, <<>>)>>)
         \o ParamsOf(Tail(param_parts))

\* RustParser._parse_params
ParseParams(params_str) ==
    IF Strip(params_str) = <<>> THEN <<>>
    ELSE ParamsOf(ParamParts(params_str, 1, 0, <<>>, <<>>))

\* _parse_methods, lines 511-524
ToMethods(sigs) ==
    [i \in 1..Len(sigs) |->
        MkMethod(sigs[i].name, ToParams(sigs[i].params), sigs[i].return_type,
                 sigs[i].pubwin, FALSE)]

\* _parse_trait_methods, lines 794-810 (a TraitMethod has no is_public)
ToTraitMethods(sigs) ==
    [i \in 1..Len(sigs) |->
        MkMethod(sigs[i].name, ToParams(sigs[i].params), sigs[i].return_type,
                 FALSE, sigs[i].has_default)]

\* _parse_enum_variants, lines 888-909
ToVariants(vs) ==
    [i \in 1..Len(vs) |->
        [name   |-> vs[i].name,
         fields |-> IF vs[i].is_tuple
                    THEN [j \in 1..Len(vs[i].fields) |->
                             \* f"field_{i}", i the 0-based position
                             MkField(<<"f", "i", "e", "l", "d", "_",
                                       (<<"0", "1", "2", "3", "4", "5", "6",
                                          "7", "8", "9">>)[j]>>,
                                     vs[i].fields[j].type_name,
                                     TRUE, FALSE, <<>>)]
                    ELSE ToFields(vs[i].fields)]]

RECURSIVE ConcatAll(_)
ConcatAll(seqs) ==
    IF Len(seqs) = 0 THEN <<>> ELSE seqs[1] \o ConcatAll(Tail(seqs))

RECURSIVE ImplBlocksFor(_, _)
\* the matches of impl_pattern for struct_name (lines 421, 468)
ImplBlocksFor(items, struct_name) ==
    IF Len(items) = 0 THEN <<>>
    ELSE (IF items[1].kind = "impl" /\ items[1].type_name = struct_name
          THEN <<items[1]>> ELSE <<>>)
         \o ImplBlocksFor(Tail(items), struct_name)

\* the matches of fn_ref_pattern in an impl body: the paths in its method
\* signatures and the paths in its method bodies
ImplBodyPaths(impl) ==
    ConcatAll([j \in 1..Len(impl.methods) |->
                 ConcatAll([k \in 1..Len(impl.methods[j].params) |->
                              PathMatchesFrom(
                                  impl.methods[j].params[k].type_name, 1)])
                 \o PathMatchesFrom(impl.methods[j].return_type, 1)])
    \o impl.paths

\* lines 487-502: each match is added whole, and its last segment
WithLastSegments(paths) ==
    UNION {{paths[i], Last(Split(paths[i], sep_path))} : i \in 1..Len(paths)}

\* _parse_impl_blocks: the methods of the impl blocks, in text order
ImplMethods(impls) ==
    ConcatAll([i \in 1..Len(impls) |-> ToMethods(impls[i].methods)])

\* lines 362-389: the members of a struct's Node, the methods of its impl
\* blocks, and its references
StructWith(node, fields, impls) ==
    [node EXCEPT !.fields = fields,
                 !.methods = ImplMethods(impls),
                 !.linked_types =
                     UNION {StructFieldRefs(fields[i]) : i \in 1..Len(fields)}
                     \cup MethodsRefs(ImplMethods(impls))
                     \* _track_function_references
                     \cup WithLastSegments(
                             ConcatAll([i \in 1..Len(impls) |->
                                          ImplBodyPaths(impls[i])]))]

\* variant whose node id is the bare name, without the module path
StructNodeShortId(file, item) ==
    StructWith(NewNode(0, item.name, item.name, "struct", file.path, item.pubwin),
               ToFields(item.fields), ImplBlocksFor(file.items, item.name))

\* _parse_structs, one match, with _parse_impl_blocks and
\* _track_function_references
StructNode(file, item) ==
    StructWith(NewNode(0, PathJoin(file.module, item.name), item.name, "struct",
                       file.path, item.pubwin),
               ToFields(item.fields), ImplBlocksFor(file.items, item.name))

\* _parse_enums, one match
EnumNode(file, item) ==
    [NewNode(0, PathJoin(file.module, item.name), item.name, "enum",
             file.path, item.pubwin)
     EXCEPT !.variants = ToVariants(item.variants),
            !.linked_types =
                UNION {TypesRefs(TypeNames(item.variants[i].fields)) :
                         i \in 1..Len(item.variants)}]

\* _parse_traits, one match
TraitNode(file, item) ==
    [NewNode(0, PathJoin(file.module, item.name), item.name, "trait",
             file.path, item.pubwin)
     EXCEPT !.trait_methods = ToTraitMethods(item.methods),
            \* lines 851-855: the bounds
            !.linked_types = (IF Strip(item.type_name) = <<>> THEN {}
                              ELSE KeepAll(Split(Strip(item.type_name), <<"+">>)))
                             \cup MethodsRefs(ToTraitMethods(item.methods))]

\* _parse_type_aliases and _parse_constants, one match (lines 983-1000,
\* 1016-1033): the Node of a declaration `name: type`
TypedNode(file, item, node_type) ==
    [NewNode(0, PathJoin(file.module, item.name), item.name,
             node_type, file.path, item.pubwin)
     EXCEPT !.return_type = Strip(item.type_name),
            !.linked_types = TypeRefs(Strip(item.type_name))]

\* variant that records the references of the return type only
FunctionNodeReturnOnly(file, m) ==
    [NewNode(0, PathJoin(file.module, m.name), m.name, "function",
             file.path, m.pubwin)
     EXCEPT !.params = ToParams(m.fields),
            !.return_type = Strip(m.type_name),
            !.linked_types = SignatureRefs(<<>>, Strip(m.type_name))]

\* _parse_functions, lines 921-967, one match of fn_pattern
FunctionNode(file, m) ==
    [NewNode(0, PathJoin(file.module, m.name), m.name, "function",
             file.path, m.pubwin)
     EXCEPT !.params = ToParams(m.fields),
            !.return_type = Strip(m.type_name),
            !.linked_types = SignatureRefs(ToParams(m.fields), Strip(m.type_name))]

\* _parse_trait_impls, lines 737-786: the standalone record, refs the
\* references of its interface and its signatures
TraitImplNode(file, trait_name, type_name, methods, refs) ==
    [NewNode(0, PathJoin(file.module,
                         <<"i", "m", "p", "l", "_">> \o trait_name
                         \o <<"_", "f", "o", "r", "_">> \o type_name),
             trait_name \o <<" ", "f", "o", "r", " ">> \o type_name,
             "trait_impl", file.path, TRUE)
     EXCEPT !.methods = methods,
            !.impl_trait = trait_name,
            !.impl_for = type_name,
            !.linked_types = refs \cup KeepClean(CleanTypeName(type_name))]

\* variant that merges the methods with the visibility they were parsed with
MergeTraitImplAsParsed(nodes, t, methods, refs) ==
    [nodes EXCEPT ![t].methods = @ \o methods, ![t].linked_types = @ \cup refs]

\* _parse_trait_impls, lines 702-736: the methods merged, flagged public,
\* into the node found
MergeTraitImpl(nodes, t, methods, refs) ==
    [nodes EXCEPT
        ![t].methods = @ \o [i \in 1..Len(methods) |->
                                [methods[i] EXCEPT !.is_public = TRUE]],
        ![t].linked_types = @ \cup refs]

\* lines 700-786: t the index of the node found for the implementing type,
\* refs the references both branches add (the interface, the signatures)
ApplyTraitImpl(st, file, item, t, methods, refs) ==
    IF t # 0
    THEN [st EXCEPT !.nodes = MergeTraitImpl(st.nodes, t, methods, refs)]
    ELSE Register(st, TraitImplNode(file, Strip(item.trait_name),
                                    Strip(item.type_name), methods, refs))

\* lines 704-708, 746-750 and the recurring block over the methods
TraitImplRefs(item, methods) ==
    KeepClean(CleanTypeName(Strip(item.trait_name))) \cup MethodsRefs(methods)

\* variant that never merges: every block gets its standalone record
ParseTraitImplStandalone(st, use_imports, file, item) ==
    ApplyTraitImpl(st, file, item, 0, ToMethods(item.methods),
                   TraitImplRefs(item, ToMethods(item.methods)))

\* _parse_trait_impls, one match of impl_pattern
ParseTraitImpl(st, use_imports, file, item) ==
    ApplyTraitImpl(st, file, item,
                   FindNodeByType(st.nodes, use_imports, Strip(item.type_name)),
                   ToMethods(item.methods),
                   TraitImplRefs(item, ToMethods(item.methods)))

\* regex \w+
IsWord(s) == Len(s) > 0 /\ \A i \in 1..Len(s) : IsWordChar(s[i])

\* _remove_impl_blocks: whether impl_pattern (line 1039) matches the head of
\* the block, so that the block is cut out of the text given to fn_pattern
ImplBlockRemoved(item) ==
    \/ item.kind = "impl"
    \/ /\ item.kind = "trait_impl"
       \* regex \w+(?:::\w+)*
       /\ \A i \in 1..Len(Split(Strip(item.trait_name), sep_path)) :
             IsWord(Split(Strip(item.trait_name), sep_path)[i])
       /\ IsWord(Strip(item.type_name))

\* a signature seen by fn_pattern
SigAsFn(sig) ==
    [BaseItem EXCEPT !.kind = "fn", !.name = sig.name, !.pubwin = sig.pubwin,
                     !.fields = sig.params, !.type_name = sig.return_type]

RECURSIVE FnMatches(_)
\* the matches of fn_pattern (line 918) in _remove_impl_blocks(content): the
\* free functions, the method signatures inside trait bodies and those inside
\* impl blocks that were not removed
FnMatches(items) ==
    IF Len(items) = 0 THEN <<>>
    ELSE LET it == items[1]
         IN  (IF it.kind = "fn" THEN <<it>>
              ELSE IF it.kind = "trait" \/ (it.kind \in {"impl", "trait_impl"}
                                            /\ ~ImplBlockRemoved(it))
              THEN [i \in 1..Len(it.methods) |-> SigAsFn(it.methods[i])]
              ELSE <<>>)
             \o FnMatches(Tail(items))

RECURSIVE KeepFound(_)
\* lines 926-928: matches _find_in_original does not locate are skipped
KeepFound(ms) ==
    IF Len(ms) = 0 THEN <<>>
    ELSE (IF ms[1].orig_found THEN <<ms[1]>> ELSE <<>>) \o KeepFound(Tail(ms))

\* the Node a pass builds from one of its matches
NodeOf(file, item) ==
    CASE item.kind = "struct" -> StructNode(file, item)
      [] item.kind = "enum"   -> EnumNode(file, item)
      [] item.kind = "trait"  -> TraitNode(file, item)
      [] item.kind = "type"   -> TypedNode(file, item, "type_alias")
      [] item.kind = "const"  -> TypedNode(file, item, "const")
      [] item.kind = "fn"     -> FunctionNode(file, item)

RECURSIVE ParseItems(_, _, _, _)
\* the matches of the passes, one after the other: the match of
\* _parse_trait_impls consults the table, the others store their Node
ParseItems(st, use_imports, file, items) ==
    IF Len(items) = 0 THEN st
    ELSE ParseItems(IF items[1].kind = "trait_impl"
                    THEN ParseTraitImpl(st, use_imports, file, items[1])
                    ELSE Register(st, NodeOf(file, items[1])),
                    use_imports, file, Tail(items))

\* lines 190-207: the matches in the order in which the passes of
\* _parse_file meet them: structs, enums, traits, trait impls, type aliases,
\* constants, functions
PassMatches(items) ==
    SelectKind(items, "struct") \o SelectKind(items, "enum")
    \o SelectKind(items, "trait") \o SelectKind(items, "trait_impl")
    \o SelectKind(items, "type") \o SelectKind(items, "const")
    \o KeepFound(FnMatches(items))

\* the Strip of group 1 of each match of use_pattern
UsePaths(items) ==
    [i \in 1..Len(SelectKind(items, "use")) |->
        Strip(SelectKind(items, "use")[i].type_name)]

\* [nodes, created, imports, raised, looked] after a file: looked tells
\* whether _find_node_by_type was called (line 700)
Parsed(st, use_imports, raised, looked) ==
    [nodes |-> st.nodes, created |-> st.created,
     imports |-> use_imports, raised |-> raised, looked |-> looked]

\* lines 186-207 given the result u of _parse_use_statements
ParseDeclarations(st, file, u) ==
    IF u.raised THEN Parsed(st, u.imports, TRUE, FALSE)
    ELSE Parsed(ParseItems(st, u.imports, file, PassMatches(file.items)),
                u.imports, FALSE,
                Len(SelectKind(file.items, "trait_impl")) > 0)

\* variant that parses whatever the path names, readable or not
ParseFileUnguarded(st, use_imports, file) ==
    ParseDeclarations(st, file,
                      ParseUseStatements(use_imports, UsePaths(file.items)))

\* RustParser._parse_file: [nodes, created, imports, raised, looked]
ParseFile(st, use_imports, file) ==
    IF ~file.readable THEN Parsed(st, use_imports, FALSE, FALSE)
    ELSE ParseDeclarations(st, file,
                           ParseUseStatements(use_imports, UsePaths(file.items)))

(***************************************************************************)
(* Method lifting                                                          *)
(***************************************************************************)

\* _create_method_function_nodes, lines 634-669: the node of one method
MethodFunctionNode(node, method) ==
    [NewNode(0, node.full_path \o <<":", ":", "f", "n", ":", ":">> \o method.name,
             PathJoin(node.name, method.name), "function", node.file_path,
             method.is_public)
     EXCEPT !.params = method.params,
            !.return_type = method.return_type,
            !.linked_types = SignatureRefs(method.params, method.return_type)]

\* the nodes one declaration contributes
LiftedOf(node) ==
    IF node.node_type \in {"struct", "enum", "trait"}
    THEN [j \in 1..Len(node.methods) |-> MethodFunctionNode(node, node.methods[j])]
    ELSE <<>>

RECURSIVE PutAll(_, _)
\* self.nodes.update(new_nodes)
PutAll(nodes, new_nodes) ==
    IF Len(new_nodes) = 0 THEN nodes
    ELSE PutAll(PutNode(nodes, new_nodes[1]), Tail(new_nodes))

RECURSIVE RegisterAll(_, _)
\* the Nodes constructed and stored one after the other
RegisterAll(st, new) ==
    IF Len(new) = 0 THEN st
    ELSE RegisterAll(Register(st, new[1]), Tail(new))

\* line 674: self.nodes.update(new_nodes)
UpdateWith(nodes, built) ==
    [nodes |-> PutAll(nodes, built.nodes), created |-> built.created]

\* RustParser._create_method_function_nodes
CreateMethodFunctionNodes(st) ==
    UpdateWith(st.nodes,
               RegisterAll([nodes |-> <<>>, created |-> st.created],
                           ConcatAll([i \in 1..Len(st.nodes) |->
                                        LiftedOf(st.nodes[i])])))

(***************************************************************************)
(* Usage Marker                                                            *)
(***************************************************************************)

\* variant of pass one that leaves function nodes alone
MarkPublicTypes(nodes) ==
    [i \in 1..Len(nodes) |->
        [nodes[i] EXCEPT !.is_used =
            @ \/ (nodes[i].is_public /\ nodes[i].node_type # "function")]]

\* lines 1077-1079
MarkPublic(nodes) ==
    [i \in 1..Len(nodes) |->
        [nodes[i] EXCEPT !.is_used = @ \/ nodes[i].is_public]]

\* variant of pass two that walks the references of used nodes only
MarkReferencedFromUsed(nodes, use_imports) ==
    LET targets ==
            {FindNodeByType(nodes, use_imports, lt) :
                lt \in UNION {nodes[i].linked_types :
                                i \in {j \in 1..Len(nodes) : nodes[j].is_used}}}
    IN  [i \in 1..Len(nodes) |->
            [nodes[i] EXCEPT !.is_used = @ \/ i \in targets]]

\* variant of pass two that writes the flag of every node, found or not
MarkReferencedOnly(nodes, use_imports) ==
    LET targets ==
            {FindNodeByType(nodes, use_imports, lt) :
                lt \in UNION {nodes[i].linked_types : i \in 1..Len(nodes)}}
    IN  [i \in 1..Len(nodes) |-> [nodes[i] EXCEPT !.is_used = i \in targets]]

\* lines 1082-1086
MarkReferenced(nodes, use_imports) ==
    LET targets ==
            {FindNodeByType(nodes, use_imports, lt) :
                lt \in UNION {nodes[i].linked_types : i \in 1..Len(nodes)}}
    IN  [i \in 1..Len(nodes) |->
            [nodes[i] EXCEPT !.is_used = @ \/ i \in targets]]

\* RustParser._mark_usage
MarkUsage(nodes, use_imports) == MarkReferenced(MarkPublic(nodes), use_imports)

(***************************************************************************)
(* Graph Assembler.  _build_graph_data appends to one list, elements: the  *)
(* node elements are kept here as a set (one per key of the table), the    *)
(* edge elements as the list in which they are appended.  Python does not  *)
(* fix the order in which a set (linked_types) is iterated: SetToSeq is    *)
(* one such order.                                                         *)
(***************************************************************************)

RECURSIVE SetToSeq(_)
\* the elements of a set in the order of one iteration over it
SetToSeq(S) ==
    IF S = {} THEN <<>>
    ELSE LET x == CHOOSE y \in S : TRUE
         IN  <<x>> \o SetToSeq(S \ {x})

\* variant without the added_edges test
AppendEdge(edges, e) == Append(edges, e)

\* `if edge_id not in added_edges: added_edges.add(edge_id); elements.append(..)`
AddEdge(edges, e) ==
    IF \E i \in 1..Len(edges) : edges[i].id = e.id THEN edges ELSE Append(edges, e)

RECURSIVE AddEdges(_, _)
\* AddEdge for the candidates of one loop, in the order the loop meets them
AddEdges(edges, cands) ==
    IF Len(cands) = 0 THEN edges
    ELSE AddEdges(AddEdge(edges, cands[1]), Tail(cands))

\* lines 1134-1151: the node elements (html: the members the summary shows)
NodeElements(nodes) ==
    {[id |-> nodes[i].id, label |-> nodes[i].name, type |-> nodes[i].node_type,
      is_used |-> nodes[i].is_used, file_path |-> nodes[i].file_path,
      html |-> <<nodes[i].return_type, nodes[i].params, nodes[i].fields,
                 nodes[i].methods, nodes[i].trait_methods, nodes[i].variants>>] :
        i \in 1..Len(nodes)}

\* the dict of one edge whose id is source + infix + target
EdgeBetween(source, infix, target, edgeType, label) ==
    [id |-> source \o infix \o target, source |-> source, target |-> target,
     edgeType |-> edgeType, label |-> label]

\* `target_node = self._find_node_by_type(linked_type)`, t its index, and
\* `if target_node and target_node.node_type in [...]`
LinkedEdge(nodes, k, t, target_kinds, edgeType) ==
    IF t # 0 /\ nodes[t].node_type \in target_kinds
    THEN <<EdgeBetween(nodes[k].id, <<"-", "u", "s", "e", "s", "-", ">">>, nodes[t].id, edgeType, <<>>)>>
    ELSE <<>>

\* the candidate for a linked type that may resolve to nothing
DanglingEdge(nodes, k, t, lt, target_kinds, edgeType) ==
    IF t = 0 THEN <<EdgeBetween(nodes[k].id, <<"-", "u", "s", "e", "s", "-", ">">>, lt, edgeType, <<>>)>>
    ELSE LinkedEdge(nodes, k, t, target_kinds, edgeType)

\* variant of LinkedEdges that also emits an edge for a reference that
\* resolves to nothing, to the text of the reference
LinkedEdgesDangling(nodes, use_imports, k, target_kinds, edgeType) ==
    LET lts == SetToSeq(nodes[k].linked_types)
    IN  ConcatAll([j \in 1..Len(lts) |->
            DanglingEdge(nodes, k, FindNodeByType(nodes, use_imports, lts[j]),
                         lts[j], target_kinds, edgeType)])

\* the candidates one node contributes to a loop over its linked_types:
\* an edge for each linked type resolving to a node of one of target_kinds
LinkedEdges(nodes, use_imports, k, target_kinds, edgeType) ==
    LET lts == SetToSeq(nodes[k].linked_types)
    IN  ConcatAll([j \in 1..Len(lts) |->
            LinkedEdge(nodes, k, FindNodeByType(nodes, use_imports, lts[j]),
                       target_kinds, edgeType)])

\* one loop over the linked_types of the nodes of source_kinds
LinkedLoop(nodes, use_imports, source_kinds, target_kinds, edgeType) ==
    ConcatAll([k \in 1..Len(nodes) |->
        IF nodes[k].node_type \in source_kinds
        THEN LinkedEdges(nodes, use_imports, k, target_kinds, edgeType)
        ELSE <<>>])

\* lines 1176-1190: the candidate for one method, fn_node_id its function
MethodEdge(nodes, k, fn_node_id) ==
    IF HasKey(nodes, fn_node_id)
    THEN <<EdgeBetween(nodes[k].id,
                       <<"-", "h", "a", "s", "_", "m", "e", "t", "h", "o", "d",
                         "-", ">">>,
                       fn_node_id, "has_method",
                       <<"m", "e", "t", "h", "o", "d">>)>>
    ELSE <<>>

\* lines 1173-1191
HasMethodEdges(nodes) ==
    ConcatAll([k \in 1..Len(nodes) |->
        IF nodes[k].node_type \in {"struct", "enum", "trait"}
        THEN ConcatAll([j \in 1..Len(nodes[k].methods) |->
                MethodEdge(nodes, k,
                           nodes[k].full_path \o <<":", ":", "f", "n", ":", ":">> \o nodes[k].methods[j].name)])
        ELSE <<>>])

\* lines 1219-1234: the candidate for one reference of a member, t the index
\* of the node it resolves to; the edge id carries the member's name
PointerEdge(nodes, k, t, name) ==
    IF t # 0 /\ nodes[t].node_type = "function"
    THEN <<EdgeBetween(nodes[k].id,
                       <<"-", "f", "n", "_", "p", "t", "r", ":">> \o name
                       \o <<"-", ">">>,
                       nodes[t].id, "fn_pointer",
                       <<"f", "n", "_", "p", "t", "r", ":", " ">> \o name)>>
    ELSE <<>>

\* lines 1216-1234: the candidates of one member
FieldPointerEdges(nodes, use_imports, k, field) ==
    IF ~field.is_fn_pointer THEN <<>>
    ELSE ConcatAll([j \in 1..Len(ExtractFnReferences(field.fn_pointer_sig)) |->
             PointerEdge(nodes, k,
                         FindNodeByType(nodes, use_imports,
                             ExtractFnReferences(field.fn_pointer_sig)[j]),
                         field.name)])

\* lines 1213-1234
FnPointerEdges(nodes, use_imports) ==
    ConcatAll([k \in 1..Len(nodes) |->
        IF nodes[k].node_type \in {"struct", "enum"}
        THEN ConcatAll([j \in 1..Len(nodes[k].fields) |->
                 FieldPointerEdges(nodes, use_imports, k, nodes[k].fields[j])])
        ELSE <<>>])

\* lines 1239-1273: the candidates of the trait_impl node k, tr and ty the
\* indices of the nodes found for its interface and its type (0: none)
ImplEdges(nodes, k, tr, ty) ==
    (IF tr # 0
     THEN <<EdgeBetween(nodes[k].id,
                        <<"-", "i", "m", "p", "l", "_", "t", "r", "a", "i", "t",
                          "-", ">">>,
                        nodes[tr].id, "impl_trait",
                        <<"i", "m", "p", "l", "e", "m", "e", "n", "t", "s">>)>>
     ELSE <<>>)
    \o
    (IF ty # 0
     THEN <<EdgeBetween(nodes[ty].id,
                        <<"-", "h", "a", "s", "_", "i", "m", "p", "l", "-", ">">>,
                        nodes[k].id, "has_trait_impl",
                        <<"i", "m", "p", "l", " ", "f", "o", "r">>)>>
     ELSE <<>>)

\* `if node.impl_trait:` / `if node.impl_for:` and the lookup
FindNamed(nodes, use_imports, name) ==
    IF name # <<>> THEN FindNodeByType(nodes, use_imports, name) ELSE 0

\* lines 1237-1273
TraitImplEdges(nodes, use_imports) ==
    ConcatAll([k \in 1..Len(nodes) |->
        IF nodes[k].node_type # "trait_impl" THEN <<>>
        ELSE ImplEdges(nodes, k,
                       FindNamed(nodes, use_imports, nodes[k].impl_trait),
                       FindNamed(nodes, use_imports, nodes[k].impl_for))])

\* RustParser._build_graph_data: the loops in their order
BuildGraphData(nodes, use_imports) ==
    [nodes |-> NodeElements(nodes),
     edges |-> AddEdges(<<>>,
                   \* lines 1154-1170
                   LinkedLoop(nodes, use_imports, {"struct", "enum", "trait", "type_alias"} \cup {"const"},
                              {"struct", "enum", "trait", "type_alias"}, "uses")
                   \o HasMethodEdges(nodes)
                   \* lines 1194-1210
                   \o LinkedLoop(nodes, use_imports, {"function"},
                                 {"struct", "enum", "trait"}, "fn_uses_type")
                   \o FnPointerEdges(nodes, use_imports)
                   \o TraitImplEdges(nodes, use_imports))]

(***************************************************************************)
(* Free-function scan on the text of a file: _parse_functions with         *)
(* _remove_impl_blocks and _find_in_original.  Positions are 1-based in    *)
(* the operators; last_end, approx_pos and the value of _find_in_original  *)
(* are the 0-based numbers of the source.                                  *)
(***************************************************************************)

\* the optional group (?:<[^>]+>)? tried at i: the index of its '>', i - 1
\* if it does not match
GenericsEnd(s, i) ==
    LET e == ClassEnd(s, i + 1, {">"}, FALSE)
    IN  IF i <= Len(s) /\ s[i] = "<" /\ e > i /\ e < Len(s) THEN e + 1
        ELSE i - 1

RECURSIVE PathEnd(_, _)
\* end of the greedy match of \w+(?:::\w+)* at i, i - 1 if none
PathEnd(s, i) ==
    LET w == RunEnd(s, i, TRUE)
    IN  IF /\ w >= i /\ StartsWithAt(s, <<":", ":">>, w + 1)
           /\ w + 3 <= Len(s) /\ IsWordChar(s[w + 3])
        THEN PathEnd(s, w + 3)
        ELSE w

\* impl_pattern (line 1039) tried at p: the index of the '{' that ends the
\* match, 0 if there is none.  a, g, b: the ends of \s+, of the optional
\* (?:\s+<[^>]+>) and of the \s+ after it; t, f: the ends of the path and of
\* the spaces of the optional (?:\w+(?:::\w+)*\s+for\s+); tail(i): the rest
\* of the pattern, (\w+)\s*(?:<[^>]+>)?\s*\{, tried at i
ImplMatchEnd(s, p) ==
    LET tail(i) ==
            LET w == RunEnd(s, i, TRUE)
                x == ClassEnd(s, GenericsEnd(s, ClassEnd(s, w + 1,
                                     {" ", "\n", "\t"}, TRUE) + 1) + 1,
                              {" ", "\n", "\t"}, TRUE)
            IN  IF w >= i /\ x < Len(s) /\ s[x + 1] = "{" THEN x + 1 ELSE 0
        a == ClassEnd(s, p + 4, {" ", "\n", "\t"}, TRUE)
        g == GenericsEnd(s, a + 1)
        b == IF g > a THEN ClassEnd(s, g + 1, {" ", "\n", "\t"}, TRUE) ELSE a
        t == PathEnd(s, b + 1)
        f == ClassEnd(s, t + 1, {" ", "\n", "\t"}, TRUE)
        h == ClassEnd(s, f + 4, {" ", "\n", "\t"}, TRUE)
    IN  IF ~(/\ StartsWithAt(s, <<"i", "m", "p", "l">>, p)
             /\ a >= p + 4 /\ (g > a => b > g))
        THEN 0
        ELSE IF /\ t > b /\ f > t /\ StartsWithAt(s, <<"f", "o", "r">>, f + 1)
                /\ h >= f + 4 /\ tail(h + 1) > 0
             THEN tail(h + 1)
             ELSE tail(b + 1)

RECURSIVE BlockEnd(_, _, _, _)
\* _remove_impl_blocks, lines 1051-1057: the scan for the brace that closes
\* the block, from index i on, taken from brace to brace; the value is the
\* new last_end
BlockEnd(content, i, depth, last_end) ==
    LET braces == {k \in i..Len(content) : content[k] \in {"{", "}"}}
        k == CHOOSE x \in braces : \A y \in braces : x <= y
    IN  IF braces = {} THEN last_end
        ELSE IF content[k] = "{"
        THEN BlockEnd(content, k + 1, depth + 1, last_end)
        ELSE IF depth = 1 THEN k
        ELSE BlockEnd(content, k + 1, depth - 1, last_end)

RECURSIVE RemoveImplBlocks(_, _, _)
\* RustParser._remove_impl_blocks: the loop over re.finditer(impl_pattern,
\* content) from index p on, taken from match to match, and the final
\* append, joined
RemoveImplBlocks(content, p, last_end) ==
    LET starts == {k \in p..Len(content) : ImplMatchEnd(content, k) > 0}
        k == CHOOSE x \in starts : \A y \in starts : x <= y
    IN  IF starts = {} THEN SubSeq(content, last_end + 1, Len(content))
        ELSE SubSeq(content, last_end + 1, k - 1)
             \o RemoveImplBlocks(content, ImplMatchEnd(content, k) + 1,
                                 BlockEnd(content, ImplMatchEnd(content, k) + 1,
                                          1, last_end))

\* RustParser._find_in_original
FindInOriginal(original, approx_pos, pattern) ==
    LET search_start == IF approx_pos > 100 THEN approx_pos - 100 ELSE 0
        search_end == IF Len(original) < approx_pos + 100 THEN Len(original)
                      ELSE approx_pos + 100
        found == {i \in search_start..(search_end - Len(pattern)) :
                    StartsWithAt(original, pattern, i + 1)}
    IN  IF found = {} THEN -1
        ELSE CHOOSE i \in found : \A j \in found : i <= j

\* fn_pattern (line 918) tried at p: stop the end of the match (0: none),
\* name its group 1.  core(q) is the pattern from `fn` on, tried first after
\* the optional (?:pub\s+), then at p
FnMatchAt(s, p) ==
    LET core(q) ==
            LET a == ClassEnd(s, q + 2, {" ", "\n", "\t"}, TRUE)
                w == RunEnd(s, a + 1, TRUE)
                c == ClassEnd(s, GenericsEnd(s, ClassEnd(s, w + 1,
                                     {" ", "\n", "\t"}, TRUE) + 1) + 1,
                              {" ", "\n", "\t"}, TRUE) + 1
                d == ClassEnd(s, c + 1, {")"}, FALSE) + 1
                e == ClassEnd(s, d + 1, {" ", "\n", "\t"}, TRUE)
                r == ClassEnd(s, e + 3, {"{", ";"}, FALSE)
            IN  IF /\ StartsWithAt(s, <<"f", "n">>, q) /\ a >= q + 2 /\ w > a
                   /\ c <= Len(s) /\ s[c] = "(" /\ d <= Len(s)
                THEN [stop |-> IF StartsWithAt(s, <<"-", ">">>, e + 1)
                                  /\ r >= e + 3
                               THEN r ELSE e,
                      name |-> SubSeq(s, a + 1, w)]
                ELSE [stop |-> 0, name |-> <<>>]
        q == ClassEnd(s, p + 3, {" ", "\n", "\t"}, TRUE) + 1
    IN  IF /\ StartsWithAt(s, <<"p", "u", "b">>, p) /\ q > p + 3
           /\ core(q).stop > 0
        THEN core(q)
        ELSE core(p)

RECURSIVE FunctionsFrom(_, _, _)
\* _parse_functions, lines 920-928 and 933: the loop over
\* re.finditer(fn_pattern, cleaned_content) from index p on, taken from match
\* to match; the names of the records made, in order
FunctionsFrom(content, cleaned_content, p) ==
    LET starts == {k \in p..Len(cleaned_content) :
                     FnMatchAt(cleaned_content, k).stop > 0}
        k == CHOOSE x \in starts : \A y \in starts : x <= y
        m == FnMatchAt(cleaned_content, k)
    IN  IF starts = {} THEN <<>>
        ELSE (IF FindInOriginal(content, k - 1,
                                SubSeq(cleaned_content, k, m.stop)) = -1
              THEN <<>>
              ELSE <<m.name>>)
             \o FunctionsFrom(content, cleaned_content, m.stop + 1)

\* RustParser._parse_functions, lines 916-933: the text given to fn_pattern
\* and the names of the records made
ParseFunctions(content) ==
    LET cleaned_content == RemoveImplBlocks(content, 1, 0)
    IN  [cleaned_content |-> cleaned_content,
         functions |-> FunctionsFrom(content, cleaned_content, 1)]

(***************************************************************************)
(* The projects scanned.  A project is one or two files, m.rs and n.rs;    *)
(* a file holds constructs of Catalog, given by their numbers in text      *)
(* order.                                                                  *)
(***************************************************************************)

\* the words of the constructs
Words ==
    [Point    |-> <<"P", "o", "i", "n", "t">>,
     Greet    |-> <<"G", "r", "e", "e", "t">>,
     hello    |-> <<"h", "e", "l", "l", "o">>,
     distance |-> <<"d", "i", "s", "t", "a", "n", "c", "e">>,
     i32      |-> <<"i", "3", "2">>]

Catalog ==
    << \* use n::B;
       TypedItem("use", <<>>, FALSE, <<"n", ":", ":", "B">>),
       \* use m::B;
       TypedItem("use", <<>>, FALSE, <<"m", ":", ":", "B">>),
       \* struct A { b: B }
       StructItem(<<"A">>, FALSE, <<Mem(<<"b">>, <<"B">>, FALSE)>>),
       \* pub struct AB { x: i32 }
       [StructItem(<<"A", "B">>, FALSE, <<Mem(<<"x">>, Words.i32, FALSE)>>)
          EXCEPT !.pubhead = TRUE],
       \* struct B { c: C }
       StructItem(<<"B">>, FALSE, <<Mem(<<"c">>, <<"C">>, FALSE)>>),
       \* struct C { x: i32 }
       StructItem(<<"C">>, FALSE, <<Mem(<<"x">>, Words.i32, FALSE)>>),
       \* /* pub */ struct D { v: Vec<B> }
       StructItem(<<"D">>, TRUE,
                  <<Mem(<<"v">>, <<"V", "e", "c", "<", "B", ">">>, FALSE)>>),
       \* struct Point { x: i32, y: i32 }
       StructItem(Words.Point, FALSE,
                  <<Mem(<<"x">>, Words.i32, FALSE), Mem(<<"y">>, Words.i32, FALSE)>>),
       \* struct S { a: m::rfn, b: m::rfn }
       StructItem(<<"S">>, FALSE,
                  <<Mem(<<"a">>, <<"m", ":", ":", "r", "f", "n">>, FALSE),
                    Mem(<<"b">>, <<"m", ":", ":", "r", "f", "n">>, FALSE)>>),
       \* enum E { V(B) }
       [BaseItem EXCEPT !.kind = "enum", !.name = <<"E">>,
                        !.variants = <<[name |-> <<"V">>, is_tuple |-> TRUE,
                                        fields |-> <<Mem(<<>>, <<"B">>, FALSE)>>]>>],
       \* trait Greet { fn hello(&self); }
       [BaseItem EXCEPT !.kind = "trait", !.name = Words.Greet,
                        !.methods = <<Sig(Words.hello, FALSE, <<>>, <<>>, FALSE)>>],
       \* pub type T = Vec<B>;
       [TypedItem("type", <<"T">>, FALSE, <<"V", "e", "c", "<", "B", ">">>)
          EXCEPT !.pubhead = TRUE],
       \* /* pub */ const K: B = mk();
       TypedItem("const", <<"K">>, TRUE, <<"B">>),
       \* fn distance(a: Point, b: Point) -> f64 { 0.0 }
       FnItem(Words.distance, FALSE,
              <<Mem(<<"a">>, Words.Point, FALSE), Mem(<<"b">>, Words.Point, FALSE)>>,
              <<"f", "6", "4">>),
       \* /* pub */ fn rfn() { }
       FnItem(<<"r", "f", "n">>, TRUE, <<>>, <<>>),
       \* impl Point { fn hello(p: B) -> Point { m::C { x: 1 }; } }
       ImplItem("impl", <<>>, Words.Point,
                <<Sig(Words.hello, FALSE, <<Mem(<<"p">>, <<"B">>, FALSE)>>,
                      Words.Point, FALSE)>>,
                <<<<"m", ":", ":", "C">>>>),
       \* impl Greet for Point { fn hello(&self) { } }
       ImplItem("trait_impl", Words.Greet, Words.Point,
                <<Sig(Words.hello, FALSE, <<>>, <<>>, FALSE)>>, <<>>),
       \* use n::B as X as Y;
       TypedItem("use", <<>>, FALSE,
                 <<"n", ":", ":", "B", " ", "a", "s", " ", "X",
                   " ", "a", "s", " ", "Y">>),
       \* use n::*;
       TypedItem("use", <<>>, FALSE, <<"n", ":", ":", "*">>),
       \* impl C { fn load() -> io::Result<C> { } }
       ImplItem("impl", <<>>, <<"C">>,
                <<Sig(<<"l", "o", "a", "d">>, FALSE, <<>>,
                      <<"i", "o", ":", ":", "R", "e", "s", "u", "l", "t",
                        "<", "C", ">">>, FALSE)>>,
                <<>>),
       \* pub fn mk() -> T { }
       [FnItem(<<"m", "k">>, FALSE, <<>>, <<"T">>) EXCEPT !.pubhead = TRUE] >>

\* the module paths of the files of a project
Modules == <<<<"m">>, <<"n">>>>

\* the most constructs a project holds
MaxItems == 3

\* the texts of a file: strictly increasing sequences of Catalog numbers
Texts(k) ==
    {s \in [1..k -> 1..Len(Catalog)] : \A i \in 1..(k - 1) : s[i] < s[i + 1]}

\* m.rs alone with up to MaxItems constructs, or m.rs (two constructs
\* fewer) with a one-construct n.rs
Projects ==
    {<<s>> : s \in UNION {Texts(k) : k \in 0..MaxItems}}
    \cup {<<s, r>> : s \in UNION {Texts(k) : k \in 0..(MaxItems - 2)},
                     r \in Texts(1)}

\* the orders in which rglob may yield n files
Orders(n) ==
    {o \in [1..n -> 1..n] : \A i, j \in 1..n : i # j => o[i] # o[j]}

VARIABLES
    project,      \* the files on disk: per file its constructs
    rust_files,   \* scan_project's list: file numbers in the order found
    pc,           \* the call main is at
    idx,          \* position of the loop of scan_project in rust_files
    nodes,        \* RustParser.nodes
    use_imports,  \* RustParser.use_imports
    created,      \* history: created[uid] is the id Node object uid was stored under
    graph,        \* the result of _build_graph_data
    run,          \* number of the run of main
    prev,         \* what the previous run left
    unreadable,   \* the files open() or read() fails on
    lookups,      \* history: for each call of _find_node_by_type, its caller
                  \* and how many files _parse_file had returned from
    input,        \* the argument of a function called on its own
    output        \* what that call returned

vars == <<project, rust_files, pc, idx, nodes, use_imports, created, graph,
          run, prev, unreadable, lookups, input, output>>

\* file k of project p as _parse_file sees it: rel_path, module_path, whether
\* open() succeeds, and the matches in its content
File(p, k) ==
    [path     |-> Modules[k] \o <<".", "r", "s">>,
     module   |-> Modules[k],
     readable |-> TRUE,
     items    |-> [j \in 1..Len(p[k]) |-> Catalog[p[k][j]]]]

\* variant in which the table outlives the parser
KeptNodes(old) == old

\* RustParser.__init__: self.nodes = {}
NewNodes(old) == <<>>

\* RustParser.__init__: self.use_imports = {}
NewImports(old) == [k \in {} |-> <<>>]

NoGraph == [nodes |-> {}, edges |-> <<>>]

\* nothing was run before
NoRun == [rust_files |-> <<>>, nodes |-> <<>>, imports |-> [k \in {} |-> <<>>],
          graph |-> NoGraph]

Init ==
    /\ project \in Projects
    /\ rust_files \in Orders(Len(project))
    /\ pc = "scan"
    /\ idx = 1
    /\ nodes = NewNodes(<<>>)
    /\ use_imports = NewImports(<<>>)
    /\ created = <<>>
    /\ graph = NoGraph
    /\ run = 1
    /\ prev = NoRun
    /\ unreadable \in SUBSET (1..Len(project))
    /\ lookups = {}
    /\ input = <<>>
    /\ output = <<>>

\* _find_node_by_type is entered, or not, by the step taken
Looked(called, caller) ==
    lookups' = IF called THEN lookups \cup {<<caller, idx - 1>>} ELSE lookups

\* variant that leaves the loop of scan_project after the first file
ScannedFirst(r) ==
    /\ nodes' = r.nodes
    /\ created' = r.created
    /\ use_imports' = r.imports
    /\ pc' = IF r.raised THEN "crashed" ELSE "lift"
    /\ Looked(r.looked, "_parse_trait_impls")

\* the parser after _parse_file left r: an exception ends main
Scanned(r) ==
    /\ nodes' = r.nodes
    /\ created' = r.created
    /\ use_imports' = r.imports
    /\ pc' = IF r.raised THEN "crashed"
             ELSE IF idx = Len(rust_files) THEN "lift" ELSE "scan"
    /\ Looked(r.looked, "_parse_trait_impls")

\* scan_project, line 165: _parse_file for the next file of rust_files
ScanFile ==
    /\ pc = "scan"
    /\ idx <= Len(rust_files)
    /\ Scanned(ParseFile([nodes |-> nodes, created |-> created], use_imports,
                         [File(project, rust_files[idx])
                            EXCEPT !.readable = rust_files[idx] \notin unreadable]))
    /\ idx' = idx + 1
    /\ UNCHANGED <<project, rust_files, graph, run, prev, unreadable, input,
                   output>>

\* the parser after _create_method_function_nodes left r
Lifted(r) == nodes' = r.nodes /\ created' = r.created

\* scan_project, line 168
Lift ==
    /\ pc = "lift"
    /\ Lifted(CreateMethodFunctionNodes([nodes |-> nodes, created |-> created]))
    /\ pc' = "mark"
    /\ UNCHANGED <<project, rust_files, idx, use_imports, graph, run, prev,
                   unreadable, lookups, input, output>>

\* scan_project, line 171
Mark ==
    /\ pc = "mark"
    /\ nodes' = MarkUsage(nodes, use_imports)
    /\ pc' = "graph"
    /\ Looked(\E i \in 1..Len(nodes) : nodes[i].linked_types # {}, "_mark_usage")
    /\ UNCHANGED <<project, rust_files, idx, use_imports, created, graph, run,
                   prev, unreadable, input, output>>

\* main, line 2183: generate_output calls _build_graph_data
Graph ==
    /\ pc = "graph"
    /\ graph' = BuildGraphData(nodes, use_imports)
    /\ pc' = "done"
    /\ Looked(\E i \in 1..Len(nodes) :
                  nodes[i].node_type = "trait_impl" \/ nodes[i].linked_types # {},
              "_build_graph_data")
    /\ UNCHANGED <<project, rust_files, idx, nodes, use_imports, created, run,
                   prev, unreadable, input, output>>

\* main is run again on the unchanged directory: a new RustParser, and rglob
\* yields the files in the same order
Rerun ==
    /\ pc = "done"
    /\ run = 1
    /\ prev' = [rust_files |-> rust_files, nodes |-> nodes,
                imports |-> use_imports, graph |-> graph]
    /\ run' = 2
    /\ nodes' = NewNodes(nodes)
    /\ use_imports' = NewImports(use_imports)
    /\ created' = <<>>
    /\ graph' = NoGraph
    /\ pc' = "scan"
    /\ idx' = 1
    /\ lookups' = {}
    /\ UNCHANGED <<project, rust_files, unreadable, input, output>>

\* after the loop of scan_project, a new RustParser is given the same files
\* in an order of its own
Reorder ==
    /\ pc = "lift"
    /\ run = 1
    /\ prev' = [rust_files |-> rust_files, nodes |-> nodes,
                imports |-> use_imports, graph |-> graph]
    /\ run' = 2
    /\ rust_files' \in Orders(Len(project))
    /\ nodes' = NewNodes(nodes)
    /\ use_imports' = NewImports(use_imports)
    /\ created' = <<>>
    /\ pc' = "scan"
    /\ idx' = 1
    /\ lookups' = {}
    /\ UNCHANGED <<project, graph, unreadable, input, output>>

Next == ScanFile \/ Lift \/ Mark \/ Graph

Spec == Init /\ [][Next]_vars

\* two runs of main over the same directory
SpecTwice == Init /\ [][Next \/ Rerun]_vars

\* the files scanned in one order, then in another
SpecOrder == Init /\ [][Next \/ Reorder]_vars

(***************************************************************************)
(* Functions called on their own: no scan runs, pc names the function      *)
(* about to be called with input, and output is what it returned.          *)
(***************************************************************************)

\* a RustParser as constructed, about to be called on one of inputs
Idle(function, inputs) ==
    /\ pc = function
    /\ input \in inputs
    /\ project = <<>>
    /\ rust_files = <<>>
    /\ idx = 1
    /\ nodes = NewNodes(<<>>)
    /\ use_imports = NewImports(<<>>)
    /\ created = <<>>
    /\ graph = NoGraph
    /\ run = 1
    /\ prev = NoRun
    /\ unreadable = {}
    /\ lookups = {}
    /\ output = <<>>

\* the call returns value and changes nothing of the parser
Returned(value) ==
    /\ output' = value
    /\ pc' = "returned"
    /\ UNCHANGED <<project, rust_files, idx, nodes, use_imports, created, graph,
                   run, prev, unreadable, lookups, input>>

\* the most members an aggregate body has
MaxMembers == 2

\* the well-formed member lists: member j is named after letter j, may be
\* pub and has one of the types i32, B, m::B, Vec<B>, HashMap<K, V>,
\* HashMap<K, m::V>
MemberLists ==
    UNION {[1..n ->
              [is_public : BOOLEAN,
               type_name :
                 { Words.i32,
                   <<"B">>,
                   <<"m", ":", ":", "B">>,
                   <<"V", "e", "c", "<", "B", ">">>,
                   <<"H", "a", "s", "h", "M", "a", "p", "<", "K", ",", " ",
                     "V", ">">>,
                   <<"H", "a", "s", "h", "M", "a", "p", "<", "K", ",", " ",
                     "m", ":", ":", "V", ">">> }]] :
             n \in 0..MaxMembers}

RECURSIVE Body(_, _)
\* the text between the braces for the members from j on, one to a line:
\* `    pub a: B,`
Body(members, j) ==
    IF j > Len(members) THEN <<"\n">>
    ELSE <<"\n", " ", " ", " ", " ">>
         \o (IF members[j].is_public THEN <<"p", "u", "b", " ">> ELSE <<>>)
         \o <<<<"a", "b", "c", "d">>[j]>> \o <<":", " ">>
         \o members[j].type_name \o <<",">>
         \o Body(members, j + 1)

\* _parse_structs, line 352: fields = self._parse_fields(body)
CallParseFields ==
    /\ pc = "_parse_fields"
    /\ Returned(ParseFields(Body(input, 1)))

\* _parse_fields called on the body of an aggregate
SpecFields == Idle("_parse_fields", MemberLists) /\ [][CallParseFields]_vars

\* the most arguments a generic type expression has
MaxArgs == 2

\* the generic type expressions Outer<Inner1, .., InnerN>, given by the
\* outer name and the arguments, each one of Bar, C, Vec<Foo>, B<C>, m::B
\* and the tuple (A, B)
Generics ==
    [outer : {<<"A">>, <<"R", "e", "s", "u", "l", "t">>},
     args  : UNION {[1..n ->
                          { <<"B", "a", "r">>,
                            <<"C">>,
                            <<"V", "e", "c", "<", "F", "o", "o", ">">>,
                            <<"B", "<", "C", ">">>,
                            <<"m", ":", ":", "B">>,
                            <<"(", "A", ",", " ", "B", ")">> }] :
                      n \in 1..MaxArgs}]

\* _parse_structs, line 377: inner_types = self._extract_inner_types(..)
CallExtractInnerTypes ==
    /\ pc = "_extract_inner_types"
    /\ Returned(ExtractInnerTypes(
           input.outer \o <<"<">> \o Join(input.args, <<",", " ">>)
           \o <<">">>))

\* _extract_inner_types called on a generic type expression
SpecInner ==
    Idle("_extract_inner_types", Generics) /\ [][CallExtractInnerTypes]_vars

\* the most `name: type` items a parameter list has
MaxParams == 2

\* _parse_methods, line 517: params = self._parse_params(params_str), the
\* text being the receiver, if any, and the items `a: T`, `b: U`, .. joined
\* by ", "
CallParseParams ==
    /\ pc = "_parse_params"
    /\ Returned(ParseParams(
           Join(input.receiver
                \o [j \in 1..Len(input.types) |->
                      <<<<"a", "b", "c", "d">>[j]>> \o <<":", " ">>
                      \o input.types[j]],
                <<",", " ">>)))

\* _parse_params called on a parameter list: no receiver or one of self,
\* &self, &mut self, mut self, then parameters of the types B, Vec<(A, B)>,
\* [u8; 3], HashMap<K, V>, &mut B and the callback type fn(i32) -> i32
SpecParams ==
    /\ Idle("_parse_params",
            [receiver : { <<>>,
                          << <<"s", "e", "l", "f">> >>,
                          << <<"&", "s", "e", "l", "f">> >>,
                          << <<"&", "m", "u", "t", " ", "s", "e", "l", "f">> >>,
                          << <<"m", "u", "t", " ", "s", "e", "l", "f">> >> },
             types : UNION {[1..n ->
                               { <<"B">>,
                                 <<"V", "e", "c", "<", "(", "A", ",", " ", "B",
                                   ")", ">">>,
                                 <<"[", "u", "8", ";", " ", "3", "]">>,
                                 <<"H", "a", "s", "h", "M", "a", "p", "<", "K",
                                   ",", " ", "V", ">">>,
                                 <<"&", "m", "u", "t", " ", "B">>,
                                 <<"f", "n", "(", "i", "3", "2", ")", " ", "-",
                                   ">", " ", "i", "3", "2">> }] :
                              n \in 0..MaxParams}])
    /\ [][CallParseParams]_vars

\* the most blocks a text holds
MaxPieces == 3

\* The blocks a text is made of: free functions and implementation blocks,
\* with the names of the functions they declare
Pieces ==
    << \* fn a() { }
       [names |-> {<<"a">>}, free |-> TRUE,
        text |->
          <<"f", "n", " ", "a", "(", ")", " ", "{", " ", "}">>],
       \* pub fn h(x: B) -> C { }
       [names |-> {<<"h">>}, free |-> TRUE,
        text |->
          <<"p", "u", "b", " ", "f", "n", " ", "h", "(", "x", ":", " ", "B",
            ")", " ", "-", ">", " ", "C", " ", "{", " ", "}">>],
       \* impl A { fn g() { } }
       [names |-> {<<"g">>}, free |-> FALSE,
        text |->
          <<"i", "m", "p", "l", " ", "A", " ", "{", " ", "f", "n", " ", "g",
            "(", ")", " ", "{", " ", "}", " ", "}">>],
       \* impl<T> W<T> { fn k() { } }
       [names |-> {<<"k">>}, free |-> FALSE,
        text |->
          <<"i", "m", "p", "l", "<", "T", ">", " ", "W", "<", "T", ">", " ",
            "{", " ", "f", "n", " ", "k", "(", ")", " ", "{", " ", "}", " ",
            "}">>],
       \* impl Greet for A { fn e() { } }
       [names |-> {<<"e">>}, free |-> FALSE,
        text |->
          <<"i", "m", "p", "l", " ", "G", "r", "e", "e", "t", " ", "f", "o",
            "r", " ", "A", " ", "{", " ", "f", "n", " ", "e", "(", ")", " ",
            "{", " ", "}", " ", "}">>],
       \* impl A { fn u() {
       [names |-> {<<"u">>}, free |-> FALSE,
        text |->
          <<"i", "m", "p", "l", " ", "A", " ", "{", " ", "f", "n", " ", "u",
            "(", ")", " ", "{", " ">>],
       \* impl A { fn g0(&self) { } .. fn g5(&self) { } }, a method to a line
       [names |-> {<<"g", d>> : d \in {"0", "1", "2", "3", "4", "5"}},
        free |-> FALSE,
        text |->
          <<"i", "m", "p", "l", " ", "A", " ", "{", "\n", " ", " ", "f", "n",
            " ", "g", "0", "(", "&", "s", "e", "l", "f", ")", " ", "{", " ",
            "}", "\n", " ", " ", "f", "n", " ", "g", "1", "(", "&", "s", "e",
            "l", "f", ")", " ", "{", " ", "}", "\n", " ", " ", "f", "n", " ",
            "g", "2", "(", "&", "s", "e", "l", "f", ")", " ", "{", " ", "}",
            "\n", " ", " ", "f", "n", " ", "g", "3", "(", "&", "s", "e", "l",
            "f", ")", " ", "{", " ", "}", "\n", " ", " ", "f", "n", " ", "g",
            "4", "(", "&", "s", "e", "l", "f", ")", " ", "{", " ", "}", "\n",
            " ", " ", "f", "n", " ", "g", "5", "(", "&", "s", "e", "l", "f",
            ")", " ", "{", " ", "}", "\n", "}">>],
       \* fn w(a0: HashMap<String, Vec<u8>>, .., a3: HashMap<String, Vec<u8>>)
       \* { }, on one line
       [names |-> {<<"w">>}, free |-> TRUE,
        text |->
          <<"f", "n", " ", "w", "(", "a", "0", ":", " ", "H", "a", "s", "h",
            "M", "a", "p", "<", "S", "t", "r", "i", "n", "g", ",", " ", "V",
            "e", "c", "<", "u", "8", ">", ">", ",", " ", "a", "1", ":", " ",
            "H", "a", "s", "h", "M", "a", "p", "<", "S", "t", "r", "i", "n",
            "g", ",", " ", "V", "e", "c", "<", "u", "8", ">", ">", ",", " ",
            "a", "2", ":", " ", "H", "a", "s", "h", "M", "a", "p", "<", "S",
            "t", "r", "i", "n", "g", ",", " ", "V", "e", "c", "<", "u", "8",
            ">", ">", ",", " ", "a", "3", ":", " ", "H", "a", "s", "h", "M",
            "a", "p", "<", "S", "t", "r", "i", "n", "g", ",", " ", "V", "e",
            "c", "<", "u", "8", ">", ">", ")", " ", "{", " ", "}">>] >>

\* content = f.read(): the text whose blocks have the numbers ks, one block
\* to a line
Content(ks) == Join([k \in 1..Len(ks) |-> Pieces[ks[k]].text], <<"\n">>)

\* _parse_file: self._parse_functions(content, ..)
CallParseFunctions ==
    /\ pc = "_parse_functions"
    /\ Returned(ParseFunctions(Content(input)))

\* _parse_functions called on a text
SpecFunctions ==
    /\ Idle("_parse_functions",
            UNION {[1..n -> 1..Len(Pieces)] : n \in 1..MaxPieces})
    /\ [][CallParseFunctions]_vars

\* m.rs holds the constructs numbered items and after them the block, one
\* of
\*   impl Greet for Point { fn hello(&self) { } }
\*   impl Greet for B { fn hello(p: C) -> A { } }
ImplInputs ==
    [items : UNION {Texts(k) : k \in 0..(MaxItems - 1)},
     block :
        { ImplItem("trait_impl", Words.Greet, Words.Point,
                   <<Sig(Words.hello, FALSE, <<>>, <<>>, FALSE)>>, <<>>),
          ImplItem("trait_impl", Words.Greet, <<"B">>,
                   <<Sig(Words.hello, FALSE, <<Mem(<<"p">>, <<"C">>, FALSE)>>,
                         <<"A">>, FALSE)>>, <<>>) }]

\* lines 186-198: the import map of m.rs when _parse_trait_impls is called
ImportsBefore(items) ==
    ParseUseStatements(NewImports(<<>>), UsePaths(File(<<items>>, 1).items))

\* lines 190-198: the table when _parse_trait_impls reaches the block, after
\* the passes for structs, enums and traits and the impl-for blocks above it
TableBefore(items) ==
    ParseItems([nodes |-> NewNodes(<<>>), created |-> <<>>],
               ImportsBefore(items).imports, File(<<items>>, 1),
               SelectKind(File(<<items>>, 1).items, "struct")
               \o SelectKind(File(<<items>>, 1).items, "enum")
               \o SelectKind(File(<<items>>, 1).items, "trait")
               \o SelectKind(File(<<items>>, 1).items, "trait_impl"))

\* _parse_trait_impls, lines 680-786, for the block
CallParseTraitImpl ==
    /\ pc = "_parse_trait_impls"
    /\ Returned(ParseTraitImpl(TableBefore(input.items),
                               ImportsBefore(input.items).imports,
                               File(<<input.items>>, 1), input.block))

\* _parse_trait_impls at one impl-for block
SpecImpl ==
    /\ Idle("_parse_trait_impls",
            {i \in ImplInputs : ~ImportsBefore(i.items).raised})
    /\ [][CallParseTraitImpl]_vars

(***************************************************************************)
(* Properties                                                              *)
(***************************************************************************)

\* scan_project has returned
Completed == pc \in {"graph", "done"}

\* some outgoing reference of node i resolves to node j
Resolves(i, j) ==
    \E lt \in nodes[i].linked_types : FindNodeByType(nodes, use_imports, lt) = j

NodeIndices == 1..Len(nodes)

EdgeIndices == 1..Len(graph.edges)

\* the construct numbered j of file k
Construct(k, j) == Catalog[project[k][j]]

\* the construct declares this name as this kind
Declares(item, kind, name) == item.kind = kind /\ item.name = name

\* file k holds a construct of this kind and name
Holds(k, kind, name) ==
    \E j \in 1..Len(project[k]) : Declares(Construct(k, j), kind, name)

\* C1: after scan_project every declaration whose public flag is true has
\* its used flag true, the function nodes made from methods included,
\* whether or not a reference resolves to it.
C1_PublicIsUsed ==
    Completed => \A i \in NodeIndices : nodes[i].is_public => nodes[i].is_used

\* a public function node made from a method, and a public declaration, to
\* which no reference resolves, both marked used
C1_Witness ==
    /\ pc = "done"
    /\ \E i \in NodeIndices :
          /\ nodes[i].is_public /\ nodes[i].is_used
          /\ Contains(nodes[i].id, <<":", ":", "f", "n", ":", ":">>)
          /\ \A k \in NodeIndices : ~Resolves(k, i)
    /\ \E i \in NodeIndices :
          /\ nodes[i].is_public /\ nodes[i].is_used
          /\ ~Contains(nodes[i].id, <<":", ":", "f", "n", ":", ":">>)
          /\ \A k \in NodeIndices : ~Resolves(k, i)

\* the declaration a reference names: the first declaration whose name is
\* the last segment of the reference and whose path ends with its segments
SegmentIndex(candidate) ==
    FirstOf({}, {j \in NodeIndices : NameMatches(nodes[j], candidate)})

RECURSIVE FirstSegmentIndex(_)
FirstSegment(i, rest) == IF i # 0 THEN i ELSE FirstSegmentIndex(rest)

FirstSegmentIndex(candidates) ==
    IF Len(candidates) = 0 THEN 0
    ELSE FirstSegment(SegmentIndex(candidates[1]), Tail(candidates))

Named(reference) == FirstSegmentIndex(ResolveTypePath(use_imports, reference))

\* the references of the member types of declaration i
MemberTypeRefs(i) ==
    UNION {StructFieldRefs(nodes[i].fields[k]) : k \in 1..Len(nodes[i].fields)}
    \cup UNION {TypesRefs(TypeNames(nodes[i].variants[k].fields)) :
                  k \in 1..Len(nodes[i].variants)}

\* C2: after scan_project (a) a non-public declaration named by the member
\* type of exactly one other declaration is marked used, and (b) a
\* non-public declaration that no other declaration's outgoing reference
\* names is left unused.
C2_MemberTypeUsage ==
    Completed =>
        \A j \in NodeIndices :
            ~nodes[j].is_public =>
                /\ Cardinality({i \in NodeIndices \ {j} :
                                  \E r \in MemberTypeRefs(i) : Named(r) = j}) = 1
                       => nodes[j].is_used
                /\ (\A i \in NodeIndices \ {j} :
                       \A r \in nodes[i].linked_types : Named(r) # j)
                       => ~nodes[j].is_used

\* the declarations other than j with a reference resolving to j
Referrers(j) == {i \in NodeIndices \ {j} : Resolves(i, j)}

\* C3 as stated: a non-public declaration whose only referrers are
\* non-public and unused is not marked used.
C3_NotTransitive ==
    pc = "done" =>
        \A j \in NodeIndices :
            (/\ ~nodes[j].is_public
             /\ Referrers(j) # {}
             /\ \A i \in Referrers(j) : ~nodes[i].is_public /\ ~nodes[i].is_used)
            => ~nodes[j].is_used

\* C3: the sweep walks the references of every declaration, whatever its
\* own visibility or used flag: a declaration is marked used exactly when
\* it is public or some declaration's reference resolves to it.
C3_UsedIffReferenced ==
    Completed =>
        \A j \in NodeIndices :
            nodes[j].is_used <=>
                (nodes[j].is_public \/ \E i \in NodeIndices : Resolves(i, j))

\* the chain: a references b only, b references c only, all private, no
\* other reference to them: b and c are used, a is not
C3_Witness ==
    /\ pc = "done"
    /\ \E a, b, c \in NodeIndices :
          /\ a # b /\ b # c /\ a # c
          /\ ~nodes[a].is_public /\ ~nodes[b].is_public /\ ~nodes[c].is_public
          /\ {i \in NodeIndices : Resolves(i, a)} = {}
          /\ {i \in NodeIndices : Resolves(i, b)} = {a}
          /\ {i \in NodeIndices : Resolves(i, c)} = {b}
          /\ ~nodes[a].is_used /\ nodes[b].is_used /\ nodes[c].is_used

\* C4: for every record created during the scan, looking up its identifier
\* in the symbol table at the end returns that same record.
C4_LookupRoundTrip ==
    Completed =>
        \A u \in 1..Len(created) :
            /\ HasKey(nodes, created[u])
            /\ nodes[KeyIndex(nodes, created[u])].uid = u

NodeIds == {n.id : n \in graph.nodes}

\* C6: both ends of every emitted edge are ids of emitted nodes; a
\* reference that resolves to no declaration yields no edge (every edge
\* drawn from a reference set comes from a reference that resolves to its
\* target) and the run completes.
C6_EdgesJoinNodes ==
    pc = "done" =>
        \A x \in EdgeIndices :
            LET e == graph.edges[x]
            IN  /\ e.source \in NodeIds
                /\ e.target \in NodeIds
                /\ e.edgeType \in {"uses", "fn_uses_type"} =>
                      \E i, j \in NodeIndices :
                          /\ nodes[i].id = e.source /\ nodes[j].id = e.target
                          /\ Resolves(i, j)

\* a completed run with an edge and with a declaration one of whose
\* references resolves to nothing
C6_Witness ==
    /\ pc = "done"
    /\ Len(graph.edges) >= 1
    /\ \E i \in NodeIndices :
          /\ \E lt \in nodes[i].linked_types :
                FindNodeByType(nodes, use_imports, lt) = 0
          /\ \E lt \in nodes[i].linked_types :
                FindNodeByType(nodes, use_imports, lt) # 0
          /\ \E x \in EdgeIndices : graph.edges[x].source = nodes[i].id

SameTriple(e, f) ==
    e.source = f.source /\ e.target = f.target /\ e.edgeType = f.edgeType

\* C7 as stated: at most one edge for each (source, target, relation kind),
\* function-pointer edges included.
C7_OneEdgePerTriple ==
    pc = "done" =>
        \A x, y \in EdgeIndices :
            SameTriple(graph.edges[x], graph.edges[y]) => x = y

\* C7: edges are deduplicated by edge id: at most one edge for each
\* (source, target, relation kind) except for function-pointer edges, of
\* which there is one for each (source, member name, target).
C7_OneEdgePerId ==
    pc = "done" =>
        \A x, y \in EdgeIndices :
            /\ graph.edges[x].id = graph.edges[y].id => x = y
            /\ (x # y /\ SameTriple(graph.edges[x], graph.edges[y])) =>
                  /\ graph.edges[x].edgeType = "fn_pointer"
                  /\ graph.edges[x].label # graph.edges[y].label

\* two function-pointer edges from one type to one function, for two members
C7_Witness ==
    /\ pc = "done"
    /\ \E x, y \in EdgeIndices :
          /\ x # y
          /\ SameTriple(graph.edges[x], graph.edges[y])
          /\ graph.edges[x].edgeType = "fn_pointer"

\* the construct is impl Greet for Point
IsGreetForPoint(item) ==
    /\ item.kind = "trait_impl"
    /\ item.trait_name = Words.Greet
    /\ item.type_name = Words.Point

\* file k holds struct Point and impl Greet for Point
GreetScene(k) ==
    /\ Holds(k, "struct", Words.Point)
    /\ \E j \in 1..Len(project[k]) : IsGreetForPoint(Construct(k, j))

GreetDeclared == \E k \in 1..Len(project) : Holds(k, "trait", Words.Greet)

PointId(k) == PathJoin(Modules[k], Words.Point)

\* the resolver returns the record of the Point of file k for the name Point
PointFound(k) ==
    /\ HasKey(nodes, PointId(k))
    /\ FindNodeByType(nodes, use_imports, Words.Point) = KeyIndex(nodes, PointId(k))

\* the record of the Point of file k
PointNode(k) == nodes[KeyIndex(nodes, PointId(k))]

\* the record has a method hello
HasHello(point) ==
    \E x \in 1..Len(point.methods) : point.methods[x].name = Words.hello

\* hello is among the methods of the record, flagged public, and Greet
\* among its references
HelloMerged(point) ==
    /\ \E x \in 1..Len(point.methods) :
          /\ point.methods[x].name = Words.hello
          /\ point.methods[x].is_public
    /\ Words.Greet \in point.linked_types

\* implements edges leave standalone implementation records only
ImplementsOnlyFromImpls(point) ==
    \A x \in EdgeIndices :
        graph.edges[x].edgeType = "impl_trait" =>
            /\ graph.edges[x].source # point.id
            /\ \E i \in NodeIndices :
                  /\ nodes[i].id = graph.edges[x].source
                  /\ nodes[i].node_type = "trait_impl"

\* g the index of the record the resolver returns for Greet (0: none)
GreetLinked(point, g) ==
    /\ (g # 0 /\ nodes[g].node_type \in {"struct", "enum", "trait", "type_alias"}) =>
          \E x \in EdgeIndices :
              /\ graph.edges[x].source = point.id
              /\ graph.edges[x].target = nodes[g].id
              /\ graph.edges[x].edgeType = "uses"
    /\ ~GreetDeclared =>
          /\ g = 0
          /\ \A n \in graph.nodes : n.label # Words.Greet

\* C8 as stated: hello is appended to Point's methods and the graph has an
\* edge of the implements relation from Point to a node for Greet, which
\* exists whether or not an interface Greet is declared.
C8_ImplementsEdge ==
    pc = "done" =>
        \A k \in 1..Len(project) :
            (GreetScene(k) /\ PointFound(k)) =>
                /\ HasHello(PointNode(k))
                /\ \E x \in EdgeIndices :
                      /\ graph.edges[x].source = PointId(k)
                      /\ graph.edges[x].edgeType = "impl_trait"
                      /\ \E n \in graph.nodes :
                            n.id = graph.edges[x].target /\ n.label = Words.Greet

\* C8: hello is appended, flagged public, to the methods of the record the
\* resolver returns for Point, and Greet is added to its outgoing
\* references; no implements edge leaves Point (such edges leave standalone
\* implementation records only) and no node is created for Greet: there is
\* an edge Point -uses-> Greet when Greet resolves to a type declaration,
\* and no node named Greet when no interface Greet is declared.
C8_MergedAndLinked ==
    pc = "done" =>
        \A k \in 1..Len(project) :
            (GreetScene(k) /\ PointFound(k)) =>
                /\ HelloMerged(PointNode(k))
                /\ ImplementsOnlyFromImpls(PointNode(k))
                /\ GreetLinked(PointNode(k),
                               FindNodeByType(nodes, use_imports, Words.Greet))

\* Point and the block in one file, no interface Greet declared: hello is
\* merged and lifted, and the graph has no node for Greet
C8_Witness ==
    /\ pc = "done"
    /\ ~GreetDeclared
    /\ \E k \in 1..Len(project) :
          /\ GreetScene(k) /\ PointFound(k)
          /\ HasKey(nodes, PointId(k) \o <<":", ":", "f", "n", ":", ":">> \o Words.hello)
          /\ \A n \in graph.nodes : n.label # Words.Greet

\* the project is the one file: struct Point { x: i32, y: i32 } and
\* fn distance(a: Point, b: Point) -> f64 { .. }
DistanceScene ==
    /\ Len(project) = 1
    /\ unreadable = {}
    /\ Len(project[1]) = 2
    /\ Construct(1, 1) =
          StructItem(Words.Point, FALSE,
                     <<Mem(<<"x">>, Words.i32, FALSE), Mem(<<"y">>, Words.i32, FALSE)>>)
    /\ Construct(1, 2) =
          FnItem(Words.distance, FALSE,
                 <<Mem(<<"a">>, Words.Point, FALSE), Mem(<<"b">>, Words.Point, FALSE)>>,
                 <<"f", "6", "4">>)

\* C9: that file yields exactly two nodes, Point of kind struct and
\* distance of kind function, exactly one edge, of kind fn_uses_type from
\* distance to Point, and Point is used.
C9_PointDistance ==
    (pc = "done" /\ DistanceScene) =>
        /\ {<<n.label, n.type>> : n \in graph.nodes} =
              {<<Words.Point, "struct">>, <<Words.distance, "function">>}
        /\ Cardinality(graph.nodes) = 2
        /\ Len(graph.edges) = 1
        /\ graph.edges[1].source = PathJoin(<<"m">>, Words.distance)
        /\ graph.edges[1].target = PathJoin(<<"m">>, Words.Point)
        /\ graph.edges[1].edgeType = "fn_uses_type"
        /\ \E n \in graph.nodes : n.label = Words.Point /\ n.is_used

C9_Witness ==
    /\ pc = "done" /\ DistanceScene
    /\ Len(graph.edges) = 1
    /\ \E n \in graph.nodes : n.label = Words.Point /\ n.is_used

\* the table as C10 compares it
TableView(ns) ==
    {[id |-> ns[i].id, node_type |-> ns[i].node_type,
      methods |-> ns[i].methods, linked_types |-> ns[i].linked_types] :
        i \in 1..Len(ns)}

\* the records of a table, disregarding position and object identity
RecordSet(ns) == {[ns[i] EXCEPT !.uid = 0] : i \in 1..Len(ns)}

\* C10 as stated: for any two orders of the same files, the symbol table
\* (records, their kinds, method lists and reference sets) and the import
\* map after per-file scanning are equal.
C10_OrderIndependent ==
    (run = 2 /\ pc = "lift") =>
        /\ TableView(prev.nodes) = TableView(nodes)
        /\ prev.imports = use_imports

NoTraitImpls ==
    \A k \in 1..Len(project) : \A j \in 1..Len(project[k]) :
        Construct(k, j).kind # "trait_impl"

\* the import map a file builds on its own
ImportsOf(k) ==
    ParseUseStatements(NewImports(<<>>), UsePaths(File(project, k).items)).imports

\* two import maps give the names they share the same path
Agree(f, g) == \A name \in (DOMAIN f) \cap (DOMAIN g) : f[name] = g[name]

NoImportClash ==
    \A k1, k2 \in 1..Len(project) : Agree(ImportsOf(k1), ImportsOf(k2))

\* C10: per-file scanning is order-independent only in part: for any two
\* orders the records are the same, as a set, when no file holds an
\* impl-for block, and the import maps are equal when no two files import
\* one simple name from different paths.
C10_OrderIndependentInPart ==
    (run = 2 /\ pc = "lift") =>
        /\ NoTraitImpls => RecordSet(prev.nodes) = RecordSet(nodes)
        /\ NoImportClash => prev.imports = use_imports

\* two files scanned in the two orders: the same records in another order
C10_Witness ==
    /\ run = 2 /\ pc = "lift"
    /\ rust_files # prev.rust_files
    /\ NoTraitImpls /\ NoImportClash
    /\ Len(nodes) >= 2
    /\ nodes[1].id # prev.nodes[1].id
    /\ RecordSet(prev.nodes) = RecordSet(nodes)

\* as many files as the project has were scanned when the resolver was called
AfterScan(l) == l[2] = Len(rust_files)

\* C11 as stated: no call of _find_node_by_type happens before the scanner
\* has finished every file.
C11_NoLookupBeforeScanEnds == \A l \in lookups : AfterScan(l)

\* C11: no call of _find_node_by_type by the Usage Marker or the Graph
\* Assembler happens before the scanner has finished every file; the calls
\* made earlier are those of _parse_trait_impls, for the impl-for blocks of
\* the file being scanned.
C11_LaterPhasesLookupAfterScan ==
    \A l \in lookups : l[1] # "_parse_trait_impls" => AfterScan(l)

\* two files, an impl-for block looked up while scanning the first, and the
\* sweep looking up after both
C11_Witness ==
    /\ Len(rust_files) = 2
    /\ <<"_parse_trait_impls", 0>> \in lookups
    /\ <<"_mark_usage", 2>> \in lookups

\* C12: whatever the files hold, no call of _parse_file raises: scan_project
\* goes on to the remaining files and to the lifting and the sweep, and main
\* never ends on an exception.
C12_ParseFileNeverRaises == pc # "crashed"

\* the loop of scan_project is at a file that cannot be opened or read
AtUnreadable ==
    pc = "scan" /\ idx <= Len(rust_files) /\ rust_files[idx] \in unreadable

\* C13: the step of scan_project at a file that cannot be opened or read
\* records no declaration and no import, leaves the table and the import map
\* as they were, and goes on to the next file (or to the lifting).
C13_UnreadableSkipped ==
    [][AtUnreadable =>
          /\ nodes' = nodes
          /\ created' = created
          /\ use_imports' = use_imports
          /\ pc' = IF idx = Len(rust_files) THEN "lift" ELSE "scan"]_vars

\* the file scanned first could not be read though it holds a construct,
\* and the one scanned after it gave the table its records
C13_Witness ==
    /\ Len(rust_files) = 2
    /\ rust_files[1] \in unreadable
    /\ project[rust_files[1]] # <<>>
    /\ pc = "lift"
    /\ Len(nodes) > 0

\* the construct is a wildcard import
IsWildcard(item) == item.kind = "use" /\ Contains(item.type_name, <<"*">>)

\* the constructs of a file but for its wildcard imports
WithoutWildcards(items) == SelectSeq(items, LAMBDA it : ~IsWildcard(it))

\* the references by bare name recorded in a table
BareNames(table) ==
    {lt \in UNION {table[i].linked_types : i \in 1..Len(table)} :
        ~Contains(lt, sep_path)}

\* C14: scanning a file leaves the import map as scanning the file without
\* its wildcard imports would, so a wildcard import adds and changes no
\* entry; and a reference by a bare name the map has no entry for has that
\* bare name as its only resolution candidate.
C14_WildcardIgnored ==
    [][(pc = "scan" /\ idx <= Len(rust_files)
            /\ rust_files[idx] \notin unreadable) =>
          /\ use_imports' =
                ParseUseStatements(
                    use_imports,
                    UsePaths(WithoutWildcards(
                        File(project, rust_files[idx]).items))).imports
          /\ \A name \in BareNames(nodes') :
                name \notin DOMAIN use_imports' =>
                    ResolveTypePath(use_imports', name) = <<name>>]_vars

\* a file with use n::*; and a struct that names B was scanned: the map has
\* no entry and B is looked up as B alone
C14_Witness ==
    /\ pc = "lift"
    /\ Len(project) = 1 /\ unreadable = {}
    /\ \E j \in 1..Len(project[1]) : IsWildcard(Construct(1, j))
    /\ DOMAIN use_imports = {}
    /\ <<"B">> \in BareNames(nodes)
    /\ ResolveTypePath(use_imports, <<"B">>) = <<<<"B">>>>

\* C15: for every well-formed aggregate body with N members, among them
\* members whose type has generic arguments separated by commas or holds a
\* `::` path, _parse_fields returns exactly N entries, each with a non-empty
\* name and a non-empty type.
C15_OneEntryPerMember ==
    (pc = "returned" /\ input \in MemberLists) =>
        /\ Len(output) = Len(input)
        /\ \A i \in 1..Len(output) :
              output[i].name # <<>> /\ output[i].type_name # <<>>

\* C16: for every generic expression Outer<Inner1, .., InnerN>,
\* _extract_inner_types returns Inner1, .., InnerN, split only at the commas
\* at the top level of the argument list, followed by what the same
\* extraction returns for each of them in turn: A<B<C>> yields B<C> and C,
\* Result<Vec<Foo>, Bar> yields Vec<Foo>, Bar and Foo.
C16_InnerTypes ==
    (pc = "returned" /\ input \in Generics) =>
        output = input.args \o ExtractNested(input.args)

\* the record at t got the methods of the block, all public, and the name
\* of the interface among its references; it kept what else it had
Merged(before, after, t, block) ==
    /\ after[t].methods =
          before[t].methods
          \o [i \in 1..Len(block.methods) |->
                [ToMethods(block.methods)[i] EXCEPT !.is_public = TRUE]]
    /\ CleanTypeName(block.trait_name) \in after[t].linked_types
    /\ before[t].linked_types \subseteq after[t].linked_types
    /\ [after[t] EXCEPT !.methods = <<>>, !.linked_types = {}]
          = [before[t] EXCEPT !.methods = <<>>, !.linked_types = {}]

\* what the block did to the table: t is the record found for its type
ImplEffect(before, after, t, block) ==
    IF t # 0
    THEN /\ Len(after.nodes) = Len(before.nodes)
         /\ after.created = before.created
         /\ Merged(before.nodes, after.nodes, t, block)
         /\ \A i \in 1..Len(before.nodes) :
               i # t => after.nodes[i] = before.nodes[i]
    ELSE /\ Len(after.nodes) = Len(before.nodes) + 1
         /\ Len(after.created) = Len(before.created) + 1
         /\ \A i \in 1..Len(before.nodes) : after.nodes[i] = before.nodes[i]
         /\ after.nodes[Len(after.nodes)].node_type = "trait_impl"
         /\ after.nodes[Len(after.nodes)].impl_trait = block.trait_name
         /\ after.nodes[Len(after.nodes)].impl_for = block.type_name

\* C17: an `impl Interface for Type` block does exactly one of two things.
\* If Type resolves to a declaration, the methods of that declaration gain
\* the methods of the block, all public, its references gain the interface
\* name, no record is created and no other record changes.  Otherwise
\* exactly one record of kind trait_impl is created, recording Interface and
\* Type, and no existing record changes.
C17_ImplForEffect ==
    (pc = "returned" /\ input \in ImplInputs) =>
        ImplEffect(TableBefore(input.items), output,
                   FindNodeByType(TableBefore(input.items).nodes,
                                  ImportsBefore(input.items).imports,
                                  Strip(input.block.type_name)),
                   input.block)

\* the block was merged into a record that has a record beside it
C17_WitnessMerged ==
    /\ pc = "returned" /\ input \in ImplInputs
    /\ Len(output.nodes) = 2
    /\ Len(output.created) = 2
    /\ \E t \in 1..2 : Len(output.nodes[t].methods) = 1
                         /\ output.nodes[t].node_type = "struct"
                         /\ Words.Greet \in output.nodes[t].linked_types

\* the ids of the records flagged used
UsedIds(table) == {table[i].id : i \in {j \in 1..Len(table) : table[j].is_used}}

\* C18: the used flag of a record goes from false to true only: a record
\* flagged used stays flagged at every later step (lifting, sweep, graph
\* assembly), and what the first pass of the sweep flags is still flagged
\* after the second.
C18_UsedNeverReset ==
    [][/\ UsedIds(nodes) \subseteq UsedIds(nodes')
       /\ pc = "mark" => UsedIds(MarkPublic(nodes)) \subseteq UsedIds(nodes')]_vars

\* after the graph was assembled a public record that nothing refers to and
\* a private record that is referred to are both flagged
C18_Witness ==
    /\ pc = "done"
    /\ \E i \in NodeIndices :
          nodes[i].is_used /\ nodes[i].is_public /\ Referrers(i) = {}
    /\ \E i \in NodeIndices : nodes[i].is_used /\ ~nodes[i].is_public

\* C19: after scanning, no reference set of a declaration holds a string
\* whose base name (reference and mut markers, generic arguments and a
\* leading crate, self or super stripped) is a standard type name, whether
\* the reference comes from a member, a parameter, a return type, a trait
\* bound or a path expression in an impl block.
C19_NoStdTypeReference ==
    pc # "scan" =>
        \A i \in NodeIndices : \A lt \in nodes[i].linked_types : ~IsStdType(lt)

\* the entries of the method lists of the structs, enums and traits: <<i, k>>
\* is entry k of the record at i
MethodEntries ==
    UNION {{<<i, k>> : k \in 1..Len(nodes[i].methods)} :
             i \in {j \in NodeIndices :
                      nodes[j].node_type \in {"struct", "enum", "trait"}}}

\* the function records that stand for a method
LiftedIndices ==
    {j \in NodeIndices :
        nodes[j].node_type = "function" /\ Contains(nodes[j].id, <<":", ":", "f", "n", ":", ":">>)}

\* the record at j stands for entry e, and one has_method edge leads to it
LiftedFor(e, j) ==
    /\ nodes[j].id = nodes[e[1]].full_path \o <<":", ":", "f", "n", ":", ":">> \o nodes[e[1]].methods[e[2]].name
    /\ nodes[j].params = nodes[e[1]].methods[e[2]].params
    /\ nodes[j].return_type = nodes[e[1]].methods[e[2]].return_type
    /\ nodes[j].is_public = nodes[e[1]].methods[e[2]].is_public
    /\ Cardinality({x \in EdgeIndices :
                        /\ graph.edges[x].edgeType = "has_method"
                        /\ graph.edges[x].source = nodes[e[1]].id
                        /\ graph.edges[x].target = nodes[j].id}) = 1

\* C20: after the scan and the graph assembly every entry of the method
\* list of a struct, enum or trait T has a function record of its own, with
\* the id T::fn::m and the parameters, return type and visibility of the
\* entry, and exactly one has_method edge from T to it; there are as many
\* such records as entries, also when two impl blocks of T define a method
\* of the same name.
C20_OneNodePerMethod ==
    pc = "done" =>
        /\ \A e \in MethodEntries : \E j \in LiftedIndices : LiftedFor(e, j)
        /\ Cardinality(LiftedIndices) = Cardinality(MethodEntries)

\* construct j of file k holds a signature of this name that is followed by
\* an opening brace: a free function, a method of an impl block, or a trait
\* method with a default body
Bodied(k, j, name) ==
    \/ Declares(Construct(k, j), "fn", name)
    \/ \E m \in 1..Len(Construct(k, j).methods) :
          /\ Construct(k, j).methods[m].name = name
          /\ Construct(k, j).kind = "trait" =>
                Construct(k, j).methods[m].has_default

\* C21: a function record is created only for a signature that an opening
\* brace follows; a header-only method signature in a trait body (ended by
\* `;`) never produces a function declaration in the table.
C21_OnlyBodiedSignatures ==
    \A i \in NodeIndices :
        nodes[i].node_type = "function" =>
            \E k \in 1..Len(project) :
                /\ nodes[i].file_path = Modules[k] \o <<".", "r", "s">>
                /\ \E j \in 1..Len(project[k]) :
                      Bodied(k, j, Last(Split(nodes[i].id, sep_path)))

\* C22: _parse_params splits a parameter list at every comma outside the
\* <>, () and [] pairs and at no other: for K `name: type` items that are
\* no receivers it returns K members in order, whatever the member types,
\* callback types with a `->` arrow included; the receiver tokens are
\* dropped.
C22_OneMemberPerParameter ==
    pc = "returned" =>
        /\ Len(output) = Len(input.types)
        /\ \A j \in 1..Len(input.types) :
              /\ output[j].name = <<<<"a", "b", "c", "d">>[j]>>
              /\ output[j].type_name = input.types[j]

\* C23: for every function node F and every declaration T of a type kind
\* (struct, enum, trait or type alias) to which one of F's parameter or
\* return-type references resolves, the graph holds a fn_uses_type edge
\* from F to T.
C23_FunctionUsesTypeEdges ==
    pc = "done" =>
        \A i, j \in NodeIndices :
            /\ nodes[i].node_type = "function"
            /\ nodes[j].node_type \in {"struct", "enum", "trait", "type_alias"}
            /\ Resolves(i, j)
            => \E e \in EdgeIndices :
                  /\ graph.edges[e].source = nodes[i].id
                  /\ graph.edges[e].target = nodes[j].id
                  /\ graph.edges[e].edgeType = "fn_uses_type"

\* the references looked up: those the declarations hold, and some more
Probes ==
    UNION {nodes[i].linked_types : i \in NodeIndices}
    \cup { <<"B">>, <<"m", ":", ":", "B">>, <<"n", ":", ":", "B">>,
           <<"x", ":", ":", "B">>, <<"T">>, Words.Point, Words.hello,
           <<"s", "t", "d", ":", ":", "i", "o", ":", ":", "R", "e", "s", "u",
             "l", "t">> }

\* the identifier of declaration j ends with the characters of candidate
SuffixTest(j, candidate) == EndsWith(nodes[j].full_path, candidate)

\* the short name of declaration j is the last segment of the candidate and,
\* for a candidate of several segments, the trailing segments of the
\* identifier are the segments of the candidate
NameTest(j, segments) ==
    /\ nodes[j].name = segments[Len(segments)]
    /\ Len(segments) > 1 =>
          /\ Len(Split(nodes[j].full_path, sep_path)) >= Len(segments)
          /\ \A k \in 1..Len(segments) :
                Split(nodes[j].full_path, sep_path)
                    [Len(Split(nodes[j].full_path, sep_path)) - Len(segments) + k]
                = segments[k]

\* the earliest-inserted declaration of a non-empty set
Earliest(S) == CHOOSE j \in S : \A k \in S : j <= k

\* what C24 says is returned for the candidates: nothing when no candidate
\* passes a test, else for the first candidate q passing one the earliest
\* declaration passing the suffix test, or if none the earliest passing the
\* name test
Expected(candidates, passing) ==
    IF passing = {} THEN 0
    ELSE IF \E j \in NodeIndices : SuffixTest(j, candidates[Earliest(passing)])
    THEN Earliest({j \in NodeIndices :
                     SuffixTest(j, candidates[Earliest(passing)])})
    ELSE Earliest({j \in NodeIndices :
                     NameTest(j, Split(candidates[Earliest(passing)], sep_path))})

DropsOneSegment(longer, shorter) ==
    \E n \in 0..Len(longer) :
        /\ ~Contains(SubSeq(longer, 1, n), sep_path)
        /\ longer = SubSeq(longer, 1, n) \o sep_path \o shorter

\* what C25 says of the candidates of reference r
CandidatesOf(r, candidates) ==
    IF Contains(r, sep_path)
    THEN /\ candidates[1] = r
         /\ candidates[2] = r
         /\ \A k \in 2..(Len(candidates) - 1) :
               DropsOneSegment(candidates[k], candidates[k + 1])
         /\ ~Contains(candidates[Len(candidates)], sep_path)
         /\ candidates = ResolveTypePath(<<>>, r)
    ELSE candidates = IF r \in DOMAIN use_imports THEN <<use_imports[r], r>>
                      ELSE <<r>>

\* C25: _resolve_type_path returns, for a reference holding `::`, the
\* reference followed by every suffix got by dropping leading segments,
\* without consulting the import map, and for a reference without `::` the
\* import map's entry, if there is one, followed by the bare reference; the
\* list is never empty and its last element is the final segment or the
\* bare name.
C25_ResolutionCandidates ==
    \A r \in Probes :
        /\ CandidatesOf(r, ResolveTypePath(use_imports, r))
        /\ Len(ResolveTypePath(use_imports, r)) > 0
        /\ Last(ResolveTypePath(use_imports, r)) = Last(Split(r, sep_path))

\* a bare reference with an entry in the import map, and a reference of
\* three segments, resolved after a scan
C25_Witness ==
    /\ pc = "done"
    /\ <<"B">> \in DOMAIN use_imports
    /\ ResolveTypePath(use_imports, <<"B">>) = <<use_imports[<<"B">>], <<"B">>>>
    /\ \E r \in Probes : Len(ResolveTypePath(use_imports, r)) = 4

\* declaration i of the table was made from construct j of file k
MadeFrom(i, k, j) ==
    /\ Construct(k, j).kind \in {"struct", "enum", "trait", "fn", "const", "type"}
    /\ Construct(k, j).name = nodes[i].name
    /\ PathJoin(Modules[k], Construct(k, j).name) = nodes[i].id

\* C26: a declaration whose head is written with `pub` directly before the
\* keyword is recorded with is_public true, and one with no `pub` in the
\* text before its head is recorded with is_public false.
C26_PubHeadIsPublic ==
    \A i \in NodeIndices :
        \A k \in 1..Len(project) :
            \A j \in 1..Len(project[k]) :
                MadeFrom(i, k, j) =>
                    /\ Construct(k, j).pubhead => nodes[i].is_public
                    /\ ~Construct(k, j).pubhead /\ ~Construct(k, j).pubwin
                          => ~nodes[i].is_public

\* C27: whenever _find_node_by_type returns a declaration for a reference,
\* the declaration's short name is the last `::` segment of one of the
\* reference's candidates: a reference to X never resolves to a declaration
\* whose name or identifier merely ends with the characters of X.
C27_ResolvesToNamedDeclaration ==
    \A r \in Probes :
        FindNodeByType(nodes, use_imports, r) # 0 =>
            \E q \in 1..Len(ResolveTypePath(use_imports, r)) :
                nodes[FindNodeByType(nodes, use_imports, r)].name
                = Last(Split(ResolveTypePath(use_imports, r)[q], sep_path))

\* the standalone records of impl-for blocks
StandaloneRecords == {k \in NodeIndices : nodes[k].node_type = "trait_impl"}

\* the methods of record k are those of one impl-for block of its file
OwnMethodsOnly(k) ==
    \E f \in 1..Len(project) :
        \E j \in 1..Len(project[f]) :
            /\ Construct(f, j).kind = "trait_impl"
            /\ nodes[k].file_path = Modules[f] \o <<".", "r", "s">>
            /\ nodes[k].methods = ToMethods(Construct(f, j).methods)

\* C28: for every standalone record R made for `impl Interface for Type`,
\* the has_trait_impl edge emitted for R leaves a declaration other than R
\* whose short name is Type; no impl_trait or has_trait_impl edge has the
\* same node at both ends; and no later impl-for block of the same type
\* merges its methods into R.
C28_StandaloneRecordEdges ==
    pc = "done" =>
        /\ \A k \in StandaloneRecords :
              /\ \A e \in EdgeIndices :
                    /\ graph.edges[e].edgeType = "has_trait_impl"
                    /\ graph.edges[e].target = nodes[k].id
                    => \E d \in NodeIndices \ {k} :
                          /\ nodes[d].id = graph.edges[e].source
                          /\ nodes[d].name = nodes[k].impl_for
              /\ OwnMethodsOnly(k)
        /\ \A e \in EdgeIndices :
              graph.edges[e].edgeType \in {"impl_trait", "has_trait_impl"}
              => graph.edges[e].source # graph.edges[e].target


\* the blocks of the text whose braces are not closed
Unclosed ==
    {k \in 1..Len(input) :
        Cardinality({x \in DOMAIN Pieces[input[k]].text :
                       Pieces[input[k]].text[x] = "{"})
        > Cardinality({x \in DOMAIN Pieces[input[k]].text :
                         Pieces[input[k]].text[x] = "}"})}

\* the block numbered k stands outside every implementation block
Outside(k) == Pieces[input[k]].free /\ \A i \in Unclosed : k < i

\* the text without its implementation blocks: the lines of the free
\* functions, an empty line where a block stood, nothing from an unclosed
\* block on
WithoutBlocks ==
    Join([k \in 1..Len(input) |->
            IF Outside(k) THEN Pieces[input[k]].text ELSE <<>>],
         <<"\n">>)

\* the names of the records _parse_functions made
Recorded == {output.functions[j] : j \in 1..Len(output.functions)}

\* C29: every free function written in the text outside the implementation
\* blocks yields a function record under its name, however much
\* implementation-block text stands before it and however long its signature
\* is.
C29_EveryFreeFunctionRecorded ==
    pc = "returned" =>
        \A k \in 1..Len(input) :
            Outside(k) => Pieces[input[k]].names \subseteq Recorded

\* C30: no function declared inside an implementation block (inherent,
\* generic or `impl Interface for Type`, its braces balanced or not) is
\* recorded as a free function: the text given to fn_pattern is the text of
\* the file without its implementation blocks, nothing of it standing twice.
C30_NoMethodRecordedAsFunction ==
    pc = "returned" =>
        /\ \A k \in 1..Len(input) :
               ~Pieces[input[k]].free =>
                   Pieces[input[k]].names \cap Recorded = {}
        /\ output.cleaned_content = WithoutBlocks

=============================================================================
